---- MODULE Spec2Model ----
(***************************************************************************)
(* Shared-memory transport of the viewer: the Registry, Frame and Geometry *)
(* readers of src/src/ipc/shm_protocol.py, the poll tick of                *)
(* src/src/ui/viewport.py that consumes what they return, and the external *)
(* producer that owns the segments.                                        *)
(*                                                                         *)
(* A segment is kept as its parsed fields plus its size in bytes; a read   *)
(* at a byte offset is resolved against that layout and fails exactly when *)
(* the code's struct.unpack_from would (offset + width > mapped size).     *)
(* A memoryview slice is kept as [off, len], clamped to the mapping the    *)
(* way Python clamps a slice.                                              *)
(***************************************************************************)
EXTENDS Integers, Sequences, FiniteSets, TLC

VARIABLES
    fbSeg,        \* Frame segment: existence, file size, header fields
    fbActive,     \* Frame header field active_index (offset 24)
    fbSeq,        \* per Frame buffer: its 64-bit sequence
    fbPay,        \* per Frame buffer: its payload bytes (each byte = id of the write that stored it)
    gmSeg,        \* Geometry segment: existence, file size, header fields
    gmSeq,        \* Geometry header field sequence (offset 16)
    rgSeg,        \* Registry segment: existence, file size, header fields
    prod,         \* position of the external producer in its Frame write
    gprod,        \* position of the external producer in its Geometry write
    fbr,          \* the FrameShmReader object
    geo,          \* the GeoShmReader object
    reg,          \* the RegistryReader object
    call,         \* the consumer's read operation in progress (locals of the running method)
    ret,          \* what the consumer's last finished operation returned or raised
    tick,         \* position of Viewport._tick and the bytes it has read through its view
    okSeq,        \* history: per reader, the sequence returned by its last successful read
    notReadySeen, \* history: readers whose connect() has failed with FileNotFoundError
    rgCams,       \* Registry segment: the camera descriptors that lie in the file
    ctSeg,        \* Control segment: existence, size, the record last stored in it
    ctrl,         \* the CtrlShmWriter object
    held,         \* readers of whose current mapping the caller still holds a view
    camSegs,      \* per camera index: its Frame and its Geometry segment
    vp,           \* the Viewport object
    objs,         \* the reader objects the Viewport has created, by identity
    pend,         \* the _delayed_close closures whose timer has not fired yet
    borrow,       \* reader objects into whose mapping another caller holds a view
    want          \* history: the settings the user has asked for

vars == <<fbSeg, fbActive, fbSeq, fbPay, gmSeg, gmSeq, rgSeg, prod, gprod,
          fbr, geo, reg, call, ret, tick, okSeq, notReadySeen,
          rgCams, ctSeg, ctrl, held, camSegs, vp, objs, pend, borrow, want>>

chanVars == <<rgCams, ctSeg, ctrl, held>>
viewVars == <<camSegs, vp, objs, pend, borrow, want>>
extVars  == <<chanVars, viewVars>>
segVars  == <<fbSeg, gmSeg, rgSeg>>
memVars  == <<fbActive, fbSeq, fbPay, gmSeq>>
prodVars == <<prod, gprod>>

----------------------------------------------------------------------------
(* Program constants *)

MAGIC == 1430472258         \* 0x55434642 'UCFB'
GEOM_MAGIC == 1430472525    \* 0x5543474D 'UCGM'
REG_MAGIC == 1430475335     \* 0x55435247
VERSION == 1
FMT_RGB888 == 0
FB_HDR_size == 28           \* struct "<I H H I I I I I"
SEQ64_size == 8             \* struct "<Q"
ACTIVE_off == 24            \* active_index: last uint32 of the Frame header
GEO_hdr_size == 24          \* magic, count, width, height, seq
GEO_seq_off == 16
GEO_unpack_size == 16       \* struct "<IIII"
REG_HDR_size == 12          \* struct "<I I I"
REG_CAM_size == 48          \* struct "<32s I I I I"
CTRL_STRUCT_size == 56      \* struct "<Q B x x x f 3f 3f 3f I"

(* Bounds of the model *)
MaxWrites == 2              \* Frame writes the producer performs
MaxGeoWrites == 1           \* Geometry writes the producer performs
MaxSpins == 2               \* largest max_spins a caller passes
MaxCtlWrites == 2           \* Control records the writer publishes
MaxOpens == 2               \* calls of Viewport._open_camera_by_index

Min(a, b) == IF a < b THEN a ELSE b
Max(a, b) == IF a > b THEN a ELSE b
Odd(n) == n % 2 = 1

----------------------------------------------------------------------------
(* Segment layout *)

\* Size implied by a Frame header: 28 + buffer_count * (8 + height*stride).
FrameImplied(seg) == FB_HDR_size + seg.bufcnt * (SEQ64_size + seg.h * seg.stride)
\* Size implied by a Geometry header: 24 + point_count * 8.
GeoImplied(seg) == GEO_hdr_size + seg.count * 8
\* Size implied by a Registry header: 12 + camera_count * 48.
RegImplied(seg) == REG_HDR_size + seg.count * REG_CAM_size

\* Offset of Frame buffer i in the segment as the producer laid it out.
SegBufBase(seg, i) == FB_HDR_size + i * (SEQ64_size + seg.h * seg.stride)

\* The Frame buffer whose sequence field starts at byte offset off.
BufAt(seg, off) == CHOOSE i \in 0..(seg.bufcnt - 1) : SegBufBase(seg, i) = off

\* struct.unpack_from(fmt, mm, off) of n bytes succeeds iff off + n <= len(mm).
CanUnpack(size, off, n) == off + n <= size

\* memoryview(mm)[off : off+len]: Python clamps both ends to the mapping.
Slice(size, off, len) ==
    LET lo == Min(off, size)
        hi == Min(off + len, size)
    IN  [off |-> lo, len |-> Max(0, hi - lo)]

NoView == [off |-> 0, len |-> 0]

----------------------------------------------------------------------------
(* Reader objects after construction *)

RegistryReader_init == [fd |-> FALSE, mm |-> FALSE]

FrameShmReader_init ==
    [fd |-> FALSE, mm |-> FALSE, width |-> 0, height |-> 0, stride |-> 0,
     bufcnt |-> 0, header_size |-> FB_HDR_size, onebuf_size |-> 0, last_seq |-> 0]

GeoShmReader_init ==
    [fd |-> FALSE, mm |-> FALSE, count |-> 0, width |-> 0, height |-> 0,
     last_seq |-> 0, hdr_size |-> GEO_hdr_size]

NoSeg == [exists |-> FALSE]

NoCall ==
    [op |-> "none", pc |-> "idle", max_spins |-> 0, sleep_ns |-> 0,
     active |-> 0, base |-> 0, seqs |-> << >>, spins |-> 0, nseq |-> 0,
     attempts |-> 0, last0 |-> 0]

NoTick == [pc |-> "idle", count |-> 0, view |-> NoView, i |-> 0, got |-> << >>]

\* The record an operation leaves behind: what it returned (res = "view",
\* "none", "ok") or the exception it raised, with what the call observed:
\* seqs = the sequence values read in its last attempt, attempts = the number
\* of attempts begun, nseq = the number of sequence reads, last0 = the reader's
\* stored last sequence when the call began, active = the active_index read,
\* cams = the list list_cameras returned, obj0 = the channel object as it was
\* when a close() or write() began, prot = the protection of the mapping an
\* opening operation made (empty when it made none).
NoRet ==
    [op |-> "none", res |-> "pending", seq |-> 0, view |-> NoView, seqs |-> << >>,
     attempts |-> 0, nseq |-> 0, last0 |-> 0, max_spins |-> 0, sleep_ns |-> 0,
     active |-> 0, seg |-> NoSeg, cams |-> << >>, obj0 |-> << >>, prot |-> {}]

\* The prot argument of the mmap.mmap call of an opening operation; the
\* Control writer attaches through SharedMemory, which maps read-write.
MapProt(op) ==
    IF op \in {"RegistryReader.connect", "FrameShmReader.connect", "GeoShmReader.connect"}
    THEN {"PROT_READ"}
    ELSE IF op \in {"open_mmap", "CtrlShmWriter.connect"}
    THEN {"PROT_READ", "PROT_WRITE"}
    ELSE {}

ConnectRet(op, res, seg) ==
    [NoRet EXCEPT !.op = op, !.res = res, !.seg = seg,
                  !.prot = IF res \in {"FileNotFoundError", "ValueError"} THEN {}
                           ELSE MapProt(op)]

\* What call c leaves behind when it returns (res, seq, view) or raises res.
ReadRet(c, res, seq, view) ==
    [NoRet EXCEPT !.op = c.op, !.res = res, !.seq = seq, !.view = view,
                  !.seqs = c.seqs, !.attempts = c.attempts, !.nseq = c.nseq,
                  !.last0 = c.last0, !.max_spins = c.max_spins,
                  !.sleep_ns = c.sleep_ns, !.active = c.active]

\* The locals of a read method as it starts.
BeginCall(op, max_spins, sleep_ns, last0) ==
    [NoCall EXCEPT !.op = op, !.max_spins = max_spins, !.sleep_ns = sleep_ns,
                   !.last0 = last0]

\* Outcomes of one step of a read method: it goes on with locals c, or it is
\* over, leaving reader r and the record rt.
GoOn(r, c) == [reader |-> r, call |-> c, ret |-> NoRet]
Over(r, rt) == [reader |-> r, call |-> NoCall, ret |-> rt]

----------------------------------------------------------------------------
(* connect() of the three readers *)

\* RegistryReader.connect: open, fstat, mmap; no header is parsed.
RegistryReader_connect(r, seg) ==
    IF ~seg.exists THEN [reader |-> r, res |-> "FileNotFoundError"]
    ELSE IF seg.size = 0
         THEN [reader |-> [r EXCEPT !.fd = TRUE], res |-> "ValueError"]
         ELSE [reader |-> [r EXCEPT !.fd = TRUE, !.mm = TRUE], res |-> "ok"]

\* Variant of FrameShmReader_connect that computes onebuf_size without the
\* 8 bytes of the sequence.
FrameShmReader_connect_noSeq(r, seg) ==
    IF ~seg.exists THEN [reader |-> r, res |-> "FileNotFoundError"]
    ELSE IF seg.size = 0
         THEN [reader |-> [r EXCEPT !.fd = TRUE], res |-> "ValueError"]
    ELSE IF seg.size < r.header_size
         THEN [reader |-> [r EXCEPT !.fd = TRUE, !.mm = TRUE], res |-> "struct.error"]
    ELSE IF seg.magic # MAGIC
         THEN [reader |-> [r EXCEPT !.fd = TRUE, !.mm = TRUE], res |-> "RuntimeError"]
    ELSE [reader |-> [r EXCEPT !.fd = TRUE, !.mm = TRUE,
                               !.width = seg.w, !.height = seg.h,
                               !.stride = seg.stride, !.bufcnt = seg.bufcnt,
                               !.onebuf_size = seg.h * seg.stride],
          res |-> "ok"]

\* Variant of FrameShmReader_connect that stores a descriptor before the open
\* has succeeded.
FrameShmReader_connect_fdFirst(r, seg) ==
    IF ~seg.exists
    THEN [reader |-> [r EXCEPT !.fd = TRUE], res |-> "FileNotFoundError"]
    ELSE IF seg.size = 0
         THEN [reader |-> [r EXCEPT !.fd = TRUE], res |-> "ValueError"]
    ELSE IF seg.size < r.header_size
         THEN [reader |-> [r EXCEPT !.fd = TRUE, !.mm = TRUE], res |-> "struct.error"]
    ELSE IF seg.magic # MAGIC
         THEN [reader |-> [r EXCEPT !.fd = TRUE, !.mm = TRUE], res |-> "RuntimeError"]
    ELSE [reader |-> [r EXCEPT !.fd = TRUE, !.mm = TRUE,
                               !.width = seg.w, !.height = seg.h,
                               !.stride = seg.stride, !.bufcnt = seg.bufcnt,
                               !.onebuf_size = 8 + (seg.h * seg.stride)],
          res |-> "ok"]

\* FrameShmReader.connect: open, fstat, mmap, unpack the 28-byte header,
\* compare the magic, store width/height/stride/bufcnt and onebuf_size.
FrameShmReader_connect(r, seg) ==
    IF ~seg.exists THEN [reader |-> r, res |-> "FileNotFoundError"]
    ELSE IF seg.size = 0
         THEN [reader |-> [r EXCEPT !.fd = TRUE], res |-> "ValueError"]
    ELSE IF seg.size < r.header_size
         THEN [reader |-> [r EXCEPT !.fd = TRUE, !.mm = TRUE], res |-> "struct.error"]
    ELSE IF seg.magic # MAGIC
         THEN [reader |-> [r EXCEPT !.fd = TRUE, !.mm = TRUE], res |-> "RuntimeError"]
    ELSE [reader |-> [r EXCEPT !.fd = TRUE, !.mm = TRUE,
                               !.width = seg.w, !.height = seg.h,
                               !.stride = seg.stride, !.bufcnt = seg.bufcnt,
                               !.onebuf_size = 8 + (seg.h * seg.stride)],
          res |-> "ok"]

\* GeoShmReader.connect: open, fstat, mmap, unpack "<IIII" at 0, compare the
\* magic, store count/width/height.
GeoShmReader_connect(r, seg) ==
    IF ~seg.exists THEN [reader |-> r, res |-> "FileNotFoundError"]
    ELSE IF seg.size = 0
         THEN [reader |-> [r EXCEPT !.fd = TRUE], res |-> "ValueError"]
    ELSE IF ~CanUnpack(seg.size, 0, GEO_unpack_size)
         THEN [reader |-> [r EXCEPT !.fd = TRUE, !.mm = TRUE], res |-> "struct.error"]
    ELSE IF seg.magic # GEOM_MAGIC
         THEN [reader |-> [r EXCEPT !.fd = TRUE, !.mm = TRUE], res |-> "RuntimeError"]
    ELSE [reader |-> [r EXCEPT !.fd = TRUE, !.mm = TRUE,
                               !.count = seg.count, !.width = seg.w, !.height = seg.h],
          res |-> "ok"]

ConsumerIdle == call.pc = "idle" /\ tick.pc = "idle"

NoteNotReady(who, res) ==
    notReadySeen' = IF res = "FileNotFoundError"
                    THEN notReadySeen \cup {who} ELSE notReadySeen

\* A connect() that maps anew: no view of the new mapping is held yet.
NoteConnect(who, r) == held' = IF r.mm THEN held \ {who} ELSE held

RegConnect ==
    /\ ConsumerIdle
    /\ LET c == RegistryReader_connect(reg, rgSeg) IN
        /\ reg' = c.reader
        /\ ret' = ConnectRet("RegistryReader.connect", c.res, rgSeg)
        /\ NoteNotReady("reg", c.res)
        /\ NoteConnect("reg", c.reader)
    /\ UNCHANGED <<segVars, memVars, prodVars, fbr, geo, call, tick, okSeq,
                   rgCams, ctSeg, ctrl, viewVars>>

FrameConnect ==
    /\ ConsumerIdle
    /\ LET c == FrameShmReader_connect(fbr, fbSeg) IN
        /\ fbr' = c.reader
        /\ ret' = ConnectRet("FrameShmReader.connect", c.res, fbSeg)
        /\ NoteNotReady("fb", c.res)
        /\ NoteConnect("fb", c.reader)
    /\ UNCHANGED <<segVars, memVars, prodVars, geo, reg, call, tick, okSeq,
                   rgCams, ctSeg, ctrl, viewVars>>

GeoConnect ==
    /\ ConsumerIdle
    /\ LET c == GeoShmReader_connect(geo, gmSeg) IN
        /\ geo' = c.reader
        /\ ret' = ConnectRet("GeoShmReader.connect", c.res, gmSeg)
        /\ NoteNotReady("geo", c.res)
        /\ NoteConnect("geo", c.reader)
    /\ UNCHANGED <<segVars, memVars, prodVars, fbr, reg, call, tick, okSeq,
                   rgCams, ctSeg, ctrl, viewVars>>

----------------------------------------------------------------------------
(* Read operations of FrameShmReader *)

\* latest_frame_view, from its entry to the loop test: the mm check, the read
\* of active_index at offset 24 (value active) and base = _buf_base(active).
latest_frame_view_enter(r, size, active, max_spins, sleep_ns) ==
    LET c0 == BeginCall("latest_frame_view", max_spins, sleep_ns, r.last_seq) IN
    IF ~r.mm THEN Over(r, ReadRet(c0, "none", r.last_seq, NoView))
    ELSE IF ~CanUnpack(size, ACTIVE_off, 4)
         THEN Over(r, ReadRet(c0, "struct.error", 0, NoView))
    ELSE LET c == [c0 EXCEPT !.active = active,
                             !.base = r.header_size + active * r.onebuf_size,
                             !.pc = "s1"]
         IN  IF c.spins < c.max_spins
             THEN GoOn(r, c)
             ELSE Over(r, ReadRet(c, "none", r.last_seq, NoView))

\* Variant of latest_frame_view_again whose loop test is `spins <= max_spins`.
latest_frame_view_again_offByOne(r, c) ==
    LET c1 == [c EXCEPT !.spins = c.spins + 1] IN
    IF c.sleep_ns # 0 THEN Over(r, ReadRet(c1, "NameError", 0, NoView))
    ELSE IF c1.spins <= c1.max_spins
         THEN GoOn(r, [c1 EXCEPT !.pc = "s1"])
         ELSE Over(r, ReadRet(c1, "none", r.last_seq, NoView))

\* The end of one attempt that found no stable sequence: spins += 1, the
\* inter-spin sleep (the module never imports time), the loop test, and the
\* return of (None, last_seq) when the budget is spent.
latest_frame_view_again(r, c) ==
    LET c1 == [c EXCEPT !.spins = c.spins + 1] IN
    IF c.sleep_ns # 0 THEN Over(r, ReadRet(c1, "NameError", 0, NoView))
    ELSE IF c1.spins < c1.max_spins
         THEN GoOn(r, [c1 EXCEPT !.pc = "s1"])
         ELSE Over(r, ReadRet(c1, "none", r.last_seq, NoView))

\* One attempt up to its first sequence read: s1 is the value read at base.
latest_frame_view_s1(r, c, s1) ==
    LET c1 == [c EXCEPT !.seqs = <<s1>>, !.nseq = c.nseq + 1,
                        !.attempts = c.attempts + 1] IN
    IF (s1 % 2) = 1
    THEN IF c.sleep_ns # 0
         THEN Over(r, ReadRet(c1, "NameError", 0, NoView))
         ELSE GoOn(r, [c1 EXCEPT !.pc = "s2"])
    ELSE latest_frame_view_again(r, c1)

\* Variant of latest_frame_view_s2 that re-reads the sequence but returns the
\* view without comparing the two values.
latest_frame_view_s2_noCompare(r, c, size, s2) ==
    LET c1 == [c EXCEPT !.seqs = Append(c.seqs, s2), !.nseq = c.nseq + 1]
        s1 == c.seqs[1]
    IN  Over([r EXCEPT !.last_seq = s1],
             ReadRet(c1, "view", s1, Slice(size, c.base + 8, r.height * r.stride)))

\* The re-read of the sequence (value s2) and what follows it.
latest_frame_view_s2(r, c, size, s2) ==
    LET c1 == [c EXCEPT !.seqs = Append(c.seqs, s2), !.nseq = c.nseq + 1]
        s1 == c.seqs[1]
    IN  IF s1 = s2
        THEN Over([r EXCEPT !.last_seq = s1],
                  ReadRet(c1, "view", s1,
                          Slice(size, c.base + 8, r.height * r.stride)))
        ELSE latest_frame_view_again(r, c1)

\* Variant of latest_frame_view_fast_enter that always reads the first buffer.
latest_frame_view_fast_enter_firstBuf(r, size, active) ==
    LET c0 == BeginCall("latest_frame_view_fast", 0, 0, r.last_seq) IN
    IF ~r.mm THEN Over(r, ReadRet(c0, "none", r.last_seq, NoView))
    ELSE IF ~CanUnpack(size, ACTIVE_off, 4)
         THEN Over(r, ReadRet(c0, "struct.error", 0, NoView))
    ELSE GoOn(r, [c0 EXCEPT !.active = 0, !.base = r.header_size,
                            !.pc = "fast_seq"])

\* latest_frame_view_fast, up to the read of active_index (value active).
latest_frame_view_fast_enter(r, size, active) ==
    LET c0 == BeginCall("latest_frame_view_fast", 0, 0, r.last_seq) IN
    IF ~r.mm THEN Over(r, ReadRet(c0, "none", r.last_seq, NoView))
    ELSE IF ~CanUnpack(size, ACTIVE_off, 4)
         THEN Over(r, ReadRet(c0, "struct.error", 0, NoView))
    ELSE GoOn(r, [c0 EXCEPT !.active = active,
                            !.base = r.header_size + active * r.onebuf_size,
                            !.pc = "fast_seq"])

\* Variant of latest_frame_view_fast_seq whose view starts at the buffer's
\* sequence field instead of 8 bytes after it.
latest_frame_view_fast_seq_noSkip(r, c, size, seq) ==
    LET c1 == [c EXCEPT !.seqs = <<seq>>, !.nseq = c.nseq + 1,
                        !.attempts = c.attempts + 1] IN
    IF (seq % 2) = 0
    THEN Over(r, ReadRet(c1, "none", r.last_seq, NoView))
    ELSE Over([r EXCEPT !.last_seq = seq],
              ReadRet(c1, "view", seq, Slice(size, c.base, r.height * r.stride)))

\* Variant of latest_frame_view_fast_seq that tests the parity of the stored
\* last sequence instead of the sequence it read.
latest_frame_view_fast_seq_staleParity(r, c, size, seq) ==
    LET c1 == [c EXCEPT !.seqs = <<seq>>, !.nseq = c.nseq + 1,
                        !.attempts = c.attempts + 1] IN
    IF (r.last_seq % 2) = 0 /\ r.last_seq # 0
    THEN Over(r, ReadRet(c1, "none", r.last_seq, NoView))
    ELSE Over([r EXCEPT !.last_seq = seq],
              ReadRet(c1, "view", seq,
                      Slice(size, c.base + 8, r.height * r.stride)))

\* latest_frame_view_fast from its one sequence read (value seq) to its return.
latest_frame_view_fast_seq(r, c, size, seq) ==
    LET c1 == [c EXCEPT !.seqs = <<seq>>, !.nseq = c.nseq + 1,
                        !.attempts = c.attempts + 1] IN
    IF (seq % 2) = 0
    THEN Over(r, ReadRet(c1, "none", r.last_seq, NoView))
    ELSE Over([r EXCEPT !.last_seq = seq],
              ReadRet(c1, "view", seq,
                      Slice(size, c.base + 8, r.height * r.stride)))

\* struct.unpack_from("<Q", mm, base) against the Frame segment.
FrameSeqReadable(base) == CanUnpack(fbSeg.size, base, SEQ64_size)
FrameSeqAt(base) == fbSeq[BufAt(fbSeg, base)]

\* The writes the segment's producer had completed when the read that starts
\* in this step began (recorded where the reads of each buffer are).
NoteBegan(who, ok) ==
    IF call.pc = "idle" /\ DOMAIN ok.buf # {}
    THEN [ok EXCEPT !.began = IF who = "geo" THEN gprod.n ELSE prod.n]
    ELSE ok

\* The history variable: the sequence the reader's last successful read
\* returned (0: none yet) and, for the Frame reader, the sequence its last
\* successful read of each buffer returned.
NoteOk(who, rt) ==
    okSeq' = NoteBegan(who,
                       IF rt.res # "view" THEN okSeq
                       ELSE IF who = "geo" THEN [okSeq EXCEPT !.geo = rt.seq]
                       ELSE IF rt.active \in DOMAIN okSeq.buf
                       THEN [okSeq EXCEPT !.fb = rt.seq, !.buf[rt.active] = rt.seq]
                       ELSE [okSeq EXCEPT !.fb = rt.seq])

\* A step of a Frame read: the reader, the locals and the result it leaves.
FrameStep(o) ==
    /\ fbr' = o.reader
    /\ call' = o.call
    /\ ret' = o.ret
    /\ NoteOk("fb", o.ret)

\* A sequence read that runs past the mapping raises struct.error.
FrameSeqStep(ok) ==
    IF FrameSeqReadable(call.base)
    THEN FrameStep(ok)
    ELSE FrameStep(Over(fbr, ReadRet(call, "struct.error", 0, NoView)))

FrameSpinCall ==
    /\ ConsumerIdle
    /\ \E n \in 0..MaxSpins, sl \in {0, 1} :
          FrameStep(latest_frame_view_enter(fbr, fbSeg.size, fbActive, n, sl))
    /\ UNCHANGED <<segVars, memVars, prodVars, geo, reg, tick, notReadySeen, extVars>>

FrameSpinS1 ==
    /\ call.op = "latest_frame_view" /\ call.pc = "s1"
    /\ FrameSeqStep(latest_frame_view_s1(fbr, call, FrameSeqAt(call.base)))
    /\ UNCHANGED <<segVars, memVars, prodVars, geo, reg, tick, notReadySeen, extVars>>

FrameSpinS2 ==
    /\ call.op = "latest_frame_view" /\ call.pc = "s2"
    /\ FrameSeqStep(latest_frame_view_s2(fbr, call, fbSeg.size, FrameSeqAt(call.base)))
    /\ UNCHANGED <<segVars, memVars, prodVars, geo, reg, tick, notReadySeen, extVars>>

FrameFastCall ==
    /\ ConsumerIdle
    /\ FrameStep(latest_frame_view_fast_enter(fbr, fbSeg.size, fbActive))
    /\ UNCHANGED <<segVars, memVars, prodVars, geo, reg, tick, notReadySeen, extVars>>

\* Also the second half of the call Viewport._tick makes (tick.pc = "fb").
FrameFastSeq ==
    /\ call.op = "latest_frame_view_fast" /\ call.pc = "fast_seq"
    /\ FrameSeqStep(latest_frame_view_fast_seq(fbr, call, fbSeg.size,
                                               FrameSeqAt(call.base)))
    /\ UNCHANGED <<segVars, memVars, prodVars, geo, reg, tick, notReadySeen, extVars>>

----------------------------------------------------------------------------
(* Read operations of GeoShmReader *)

\* latest, from its entry to the loop test.
GeoShmReader_latest_enter(r, max_spins, sleep_ns) ==
    LET c0 == BeginCall("latest", max_spins, sleep_ns, r.last_seq) IN
    IF ~r.mm THEN Over(r, ReadRet(c0, "none", r.last_seq, NoView))
    ELSE LET c == [c0 EXCEPT !.base = GEO_seq_off, !.pc = "s1"] IN
         IF c.spins < c.max_spins
         THEN GoOn(r, c)
         ELSE Over(r, ReadRet(c, "none", r.last_seq, NoView))

\* The end of one attempt that found no stable sequence.
GeoShmReader_latest_again(r, c) ==
    LET c1 == [c EXCEPT !.spins = c.spins + 1] IN
    IF c.sleep_ns # 0 THEN Over(r, ReadRet(c1, "NameError", 0, NoView))
    ELSE IF c1.spins < c1.max_spins
         THEN GoOn(r, [c1 EXCEPT !.pc = "s1"])
         ELSE Over(r, ReadRet(c1, "none", r.last_seq, NoView))

\* One attempt up to its first sequence read (value s1, read at offset 16).
GeoShmReader_latest_s1(r, c, s1) ==
    LET c1 == [c EXCEPT !.seqs = <<s1>>, !.nseq = c.nseq + 1,
                        !.attempts = c.attempts + 1] IN
    IF (s1 % 2) = 1
    THEN IF c.sleep_ns # 0
         THEN Over(r, ReadRet(c1, "NameError", 0, NoView))
         ELSE GoOn(r, [c1 EXCEPT !.pc = "s2"])
    ELSE GeoShmReader_latest_again(r, c1)

\* The re-read of the sequence (value s2) and what follows it.
GeoShmReader_latest_s2(r, c, size, s2) ==
    LET c1 == [c EXCEPT !.seqs = Append(c.seqs, s2), !.nseq = c.nseq + 1]
        s1 == c.seqs[1]
    IN  IF s1 = s2
        THEN Over([r EXCEPT !.last_seq = s1],
                  ReadRet(c1, "view", s1, Slice(size, r.hdr_size, r.count * 8)))
        ELSE GeoShmReader_latest_again(r, c1)

\* Variant of GeoShmReader_latest_fast that stores the sequence it read before
\* testing its parity.
GeoShmReader_latest_fast_storeFirst(r, size, readable, seq) ==
    LET c0 == BeginCall("latest_fast", 0, 0, r.last_seq)
        c1 == [c0 EXCEPT !.base = GEO_seq_off, !.seqs = <<seq>>, !.nseq = 1,
                         !.attempts = 1]
        r1 == [r EXCEPT !.last_seq = seq]
    IN  IF ~r.mm THEN Over(r, ReadRet(c0, "none", r.last_seq, NoView))
        ELSE IF ~readable THEN Over(r, ReadRet(c0, "struct.error", 0, NoView))
        ELSE IF (seq % 2) = 0
             THEN Over(r1, ReadRet(c1, "none", r1.last_seq, NoView))
             ELSE Over(r1, ReadRet(c1, "view", seq,
                                   Slice(size, r.hdr_size, r.count * 8)))

\* latest_fast: the mm check, then (readable: offset 16 lies in the mapping)
\* the one sequence read (value seq) and the return.
GeoShmReader_latest_fast(r, size, readable, seq) ==
    LET c0 == BeginCall("latest_fast", 0, 0, r.last_seq)
        c1 == [c0 EXCEPT !.base = GEO_seq_off, !.seqs = <<seq>>, !.nseq = 1,
                         !.attempts = 1]
    IN  IF ~r.mm THEN Over(r, ReadRet(c0, "none", r.last_seq, NoView))
        ELSE IF ~readable THEN Over(r, ReadRet(c0, "struct.error", 0, NoView))
        ELSE IF (seq % 2) = 0
             THEN Over(r, ReadRet(c1, "none", r.last_seq, NoView))
             ELSE Over([r EXCEPT !.last_seq = seq],
                       ReadRet(c1, "view", seq,
                               Slice(size, r.hdr_size, r.count * 8)))

\* struct.unpack_from("<Q", mm, 16) against the Geometry segment.
GeoSeqReadable == CanUnpack(gmSeg.size, GEO_seq_off, SEQ64_size)

GeoStep(o) ==
    /\ geo' = o.reader
    /\ call' = o.call
    /\ ret' = o.ret
    /\ NoteOk("geo", o.ret)

GeoSeqStep(ok) ==
    IF GeoSeqReadable
    THEN GeoStep(ok)
    ELSE GeoStep(Over(geo, ReadRet(call, "struct.error", 0, NoView)))

GeoSpinCall ==
    /\ ConsumerIdle
    /\ \E n \in 0..MaxSpins, sl \in {0, 1} :
          GeoStep(GeoShmReader_latest_enter(geo, n, sl))
    /\ UNCHANGED <<segVars, memVars, prodVars, fbr, reg, tick, notReadySeen, extVars>>

GeoSpinS1 ==
    /\ call.op = "latest" /\ call.pc = "s1"
    /\ GeoSeqStep(GeoShmReader_latest_s1(geo, call, gmSeq))
    /\ UNCHANGED <<segVars, memVars, prodVars, fbr, reg, tick, notReadySeen, extVars>>

GeoSpinS2 ==
    /\ call.op = "latest" /\ call.pc = "s2"
    /\ GeoSeqStep(GeoShmReader_latest_s2(geo, call, gmSeg.size, gmSeq))
    /\ UNCHANGED <<segVars, memVars, prodVars, fbr, reg, tick, notReadySeen, extVars>>

GeoFast ==
    /\ ConsumerIdle
    /\ GeoStep(GeoShmReader_latest_fast(geo, gmSeg.size, GeoSeqReadable, gmSeq))
    /\ UNCHANGED <<segVars, memVars, prodVars, fbr, reg, tick, notReadySeen, extVars>>

----------------------------------------------------------------------------
(* The external producer, as the protocol describes it: per Frame write, the *)
(* sequence of the next buffer is made even, its payload bytes are           *)
(* rewritten, the sequence is made odd, and active_index is rotated to it;   *)
(* per Geometry write, the sequence is made even, then odd.                  *)

NoProd == [pc |-> "idle", buf |-> 0, pos |-> 0, n |-> 0]
NoGProd == [pc |-> "idle", n |-> 0]

PayLen(seg) == seg.h * seg.stride

ProdBegin ==
    /\ prod.pc = "idle" /\ prod.n < MaxWrites
    /\ LET b == (fbActive + 1) % fbSeg.bufcnt IN
        /\ fbSeq' = [fbSeq EXCEPT ![b] = @ + 1]
        /\ prod' = [prod EXCEPT !.pc = "write", !.buf = b, !.pos = 1]
    /\ UNCHANGED <<segVars, fbActive, fbPay, gmSeq, gprod, fbr, geo, reg, call,
                   ret, tick, okSeq, notReadySeen, extVars>>

ProdWriteByte ==
    /\ prod.pc = "write"
    /\ fbPay' = [fbPay EXCEPT ![prod.buf][prod.pos] = prod.n + 1]
    /\ prod' = IF prod.pos = PayLen(fbSeg)
               THEN [prod EXCEPT !.pc = "commit", !.pos = 0]
               ELSE [prod EXCEPT !.pos = @ + 1]
    /\ UNCHANGED <<segVars, fbActive, fbSeq, gmSeq, gprod, fbr, geo, reg, call,
                   ret, tick, okSeq, notReadySeen, extVars>>

ProdCommit ==
    /\ prod.pc = "commit"
    /\ fbSeq' = [fbSeq EXCEPT ![prod.buf] = @ + 1]
    /\ prod' = [prod EXCEPT !.pc = "rotate"]
    /\ UNCHANGED <<segVars, fbActive, fbPay, gmSeq, gprod, fbr, geo, reg, call,
                   ret, tick, okSeq, notReadySeen, extVars>>

ProdRotate ==
    /\ prod.pc = "rotate"
    /\ fbActive' = prod.buf
    /\ prod' = [prod EXCEPT !.pc = "idle", !.n = @ + 1]
    /\ UNCHANGED <<segVars, fbSeq, fbPay, gmSeq, gprod, fbr, geo, reg, call,
                   ret, tick, okSeq, notReadySeen, extVars>>

GeoProdBegin ==
    /\ gprod.pc = "idle" /\ gprod.n < MaxGeoWrites
    /\ gmSeq' = gmSeq + 1
    /\ gprod' = [gprod EXCEPT !.pc = "write"]
    /\ UNCHANGED <<segVars, fbActive, fbSeq, fbPay, prod, fbr, geo, reg, call,
                   ret, tick, okSeq, notReadySeen, extVars>>

GeoProdCommit ==
    /\ gprod.pc = "write"
    /\ gmSeq' = gmSeq + 1
    /\ gprod' = [gprod EXCEPT !.pc = "idle", !.n = @ + 1]
    /\ UNCHANGED <<segVars, fbActive, fbSeq, fbPay, prod, fbr, geo, reg, call,
                   ret, tick, okSeq, notReadySeen, extVars>>

----------------------------------------------------------------------------
(* Viewport._tick: geometry, then frame, then the pixel bytes read through *)
(* the frame view, one point at a time.                                    *)

\* `xy_view, meta, gseq = self._geom.latest_fast()` and the return when the
\* view is None.
TickGeo ==
    /\ ConsumerIdle
    /\ LET o == GeoShmReader_latest_fast(geo, gmSeg.size, GeoSeqReadable, gmSeq) IN
        /\ GeoStep(o)
        /\ tick' = IF o.ret.res = "view"
                   THEN [NoTick EXCEPT !.pc = "fb_call", !.count = o.reader.count]
                   ELSE NoTick
    /\ UNCHANGED <<segVars, memVars, prodVars, fbr, reg, notReadySeen, extVars>>

\* `view, fseq = self._fb.latest_frame_view_fast()`, up to its read of
\* active_index.
TickFrameCall ==
    /\ tick.pc = "fb_call"
    /\ LET o == latest_frame_view_fast_enter(fbr, fbSeg.size, fbActive) IN
        /\ FrameStep(o)
        /\ tick' = IF o.call.pc = "idle" THEN NoTick ELSE [tick EXCEPT !.pc = "fb"]
    /\ UNCHANGED <<segVars, memVars, prodVars, geo, reg, notReadySeen, extVars>>

\* Variant of Tick_afterFrame without `if len(view) < count * 3: return`.
Tick_afterFrame_noBound(t, rt) ==
    IF rt.res # "view" THEN [tick |-> NoTick, res |-> "skip"]
    ELSE IF t.count = 0 THEN [tick |-> NoTick, res |-> "ValueError"]
    ELSE [tick |-> [t EXCEPT !.pc = "px", !.view = rt.view, !.i = 0], res |-> "go"]

\* What the tick does with the returned view before it reads pixels: the
\* None test, the bound check len(view) < count*3, and the pass over the
\* coordinates (min() of an empty sequence raises ValueError).
Tick_afterFrame(t, rt) ==
    IF rt.res # "view" THEN [tick |-> NoTick, res |-> "skip"]
    ELSE IF rt.view.len < t.count * 3 THEN [tick |-> NoTick, res |-> "skip"]
    ELSE IF t.count = 0 THEN [tick |-> NoTick, res |-> "ValueError"]
    ELSE [tick |-> [t EXCEPT !.pc = "px", !.view = rt.view, !.i = 0], res |-> "go"]

TickAfterFrame ==
    /\ tick.pc = "fb" /\ call.pc = "idle"
    /\ tick' = Tick_afterFrame(tick, ret).tick
    /\ UNCHANGED <<segVars, memVars, prodVars, fbr, geo, reg, call, ret, okSeq,
                   notReadySeen, extVars>>

\* view[k]: the byte k of the view, read from the mapped segment now.
ViewByte(v, k) == fbPay[BufAt(fbSeg, v.off - SEQ64_size)][k + 1]

\* `R = view[p+0]; G = view[p+1]; B = view[p+2]` for p = i*3, one byte a step.
\* With the 1x1 target of the modelled geometry every point lands in range.
TickReadByte ==
    /\ tick.pc = "px"
    /\ LET got == Append(tick.got, ViewByte(tick.view, tick.i)) IN
       tick' = IF tick.i + 1 = tick.count * 3
               THEN [NoTick EXCEPT !.got = got]
               ELSE [tick EXCEPT !.i = @ + 1, !.got = got]
    /\ UNCHANGED <<segVars, memVars, prodVars, fbr, geo, reg, call, ret, okSeq,
                   notReadySeen, extVars>>

----------------------------------------------------------------------------
(* The seqlock protocol: segments as a conforming producer created them,   *)
(* the producer writing, the consumer connecting, reading and ticking.     *)

FrameSeg(magic, ver, fmt, w, h, stride, bufcnt, size) ==
    [exists |-> TRUE, size |-> size, magic |-> magic, ver |-> ver, fmt |-> fmt,
     w |-> w, h |-> h, stride |-> stride, bufcnt |-> bufcnt]

GeoSeg(magic, count, w, h, size) ==
    [exists |-> TRUE, size |-> size, magic |-> magic, count |-> count,
     w |-> w, h |-> h]

RegSeg(magic, ver, count, size) ==
    [exists |-> TRUE, size |-> size, magic |-> magic, ver |-> ver, count |-> count]

\* One camera of one point on a 1x1 target: two Frame buffers of 3 bytes.
GoodFrameSeg ==
    LET s == FrameSeg(MAGIC, VERSION, FMT_RGB888, 1, 1, 3, 2, 0)
    IN  [s EXCEPT !.size = FrameImplied(s)]
GoodGeoSeg ==
    LET s == GeoSeg(GEOM_MAGIC, 1, 1, 1, 0) IN [s EXCEPT !.size = GeoImplied(s)]
GoodRegSeg ==
    LET s == RegSeg(REG_MAGIC, VERSION, 1, 0) IN [s EXCEPT !.size = RegImplied(s)]

----------------------------------------------------------------------------
(* The Registry's descriptors, the Control channel and the Viewport, as they *)
(* are before anything has run                                               *)

\* One on-disk camera descriptor: the bytes of its fixed-width name field and
\* its four integers.
Desc(name, index, count, w, h) ==
    [name |-> name, index |-> index, count |-> count, width |-> w, height |-> h]

\* The descriptors of a registry that lists cameras 0 .. n-1.
CamDesc(i) == IF i = 0 THEN Desc(<<65, 0, 0>>, 0, 1, 1, 1)
              ELSE Desc(<<66, 0, 0>>, i, 2, 2, 1)
GoodRegCams(n) == [i \in 1..n |-> CamDesc(i - 1)]

\* The number of whole descriptors that lie in the file of a Registry segment.
FitCams(seg) ==
    IF seg.exists /\ seg.size >= REG_HDR_size
    THEN (seg.size - REG_HDR_size) \div REG_CAM_size
    ELSE 0

CtrlShmWriter_init ==
    [shm |-> FALSE, seq |-> 0, pause |-> 0, dt_scale |-> 100,
     cam_pos |-> <<0, 0, 0>>, cam_look |-> <<0, 0, -1>>, cam_up |-> <<0, 1, 0>>,
     debug_flags |-> 0]

\* The record of a Control segment nobody has written yet: all bytes zero.
ZeroRec ==
    [seq |-> 0, pause |-> 0, dt_scale |-> [f32 |-> 0, exact |-> TRUE], cam_pos |-> <<0, 0, 0>>,
     cam_look |-> <<0, 0, 0>>, cam_up |-> <<0, 0, 0>>, debug_flags |-> 0]

MissingCtSeg == [exists |-> FALSE, size |-> 0, rec |-> ZeroRec]
GoodCtSeg == [exists |-> TRUE, size |-> CTRL_STRUCT_size, rec |-> ZeroRec]

\* What a rendering tick worked with: point count, target size, length of
\* the Frame view, the reader objects, and whether the Frame view's mapping
\* was mapped when the tick read through it.
NoUse == [count |-> 0, W |-> 0, H |-> 0, len |-> 0, fb |-> 0, geom |-> 0,
          live |-> TRUE]

\* Viewport.__init__: fb, geom and keep (the object whose mapping
\* _view_keepalive points into) are object identities, 0 for None; both
\* timers are started.  History: opens = calls of _open_camera_by_index,
\* raised = the exception that left the handler that ran last and that
\* handler, used = what the last tick since the last open rendered from.
Viewport_init ==
    [connected |-> FALSE, ctrl_ok |-> FALSE, reg_ok |-> FALSE, cams_meta |-> << >>,
     active_idx |-> -1, fb |-> 0, geom |-> 0, keep |-> 0,
     retry_on |-> TRUE, frame_on |-> TRUE,
     opens |-> 0, raised |-> [by |-> "none", exc |-> "none"], used |-> NoUse]

\* Parts of the state a specification does not exercise.
NoCameras == camSegs = << >>
NoControl == ctSeg = MissingCtSeg

\* The history before any read: bufs = the Frame buffers whose reads are
\* recorded one by one.
NoOkSeq(bufs) ==
    [fb |-> 0, geo |-> 0, buf |-> [i \in bufs |-> 0],
     began |-> 0]

FreshConsumer ==
    /\ fbr = FrameShmReader_init
    /\ geo = GeoShmReader_init
    /\ reg = RegistryReader_init
    /\ call = NoCall
    /\ ret = NoRet
    /\ tick = NoTick
    /\ notReadySeen = {}
    /\ ctrl = CtrlShmWriter_init
    /\ held = {}
    /\ vp = Viewport_init
    /\ objs = << >>
    /\ pend = {}
    /\ borrow = {}
    /\ want = [pause |-> 0, dt_scale |-> 100, asked |-> {}]

InitWith(ok) ==
    /\ fbSeg = GoodFrameSeg
    /\ gmSeg = GoodGeoSeg
    /\ rgSeg = GoodRegSeg
    /\ fbActive = 0
    /\ fbSeq = [i \in 0..(GoodFrameSeg.bufcnt - 1) |-> 1]
    /\ fbPay = [i \in 0..(GoodFrameSeg.bufcnt - 1) |->
                   [k \in 1..PayLen(GoodFrameSeg) |-> 0]]
    /\ gmSeq = 1
    /\ prod = NoProd
    /\ gprod = NoGProd
    /\ rgCams = GoodRegCams(GoodRegSeg.count)
    /\ NoCameras /\ NoControl
    /\ FreshConsumer
    /\ okSeq = ok

Init == InitWith(NoOkSeq({}))

Next ==
    \/ ProdBegin \/ ProdWriteByte \/ ProdCommit \/ ProdRotate
    \/ GeoProdBegin \/ GeoProdCommit
    \/ FrameConnect \/ GeoConnect
    \/ FrameSpinCall \/ FrameSpinS1 \/ FrameSpinS2
    \/ FrameFastCall \/ FrameFastSeq
    \/ GeoSpinCall \/ GeoSpinS1 \/ GeoSpinS2 \/ GeoFast
    \/ TickGeo \/ TickFrameCall \/ TickAfterFrame \/ TickReadByte

Spec == Init /\ [][Next]_vars

\* The same protocol without the poll tick, with the reads of each Frame
\* buffer recorded one by one.
InitSeq == InitWith(NoOkSeq(0..(GoodFrameSeg.bufcnt - 1)))

NextSeq ==
    \/ ProdBegin \/ ProdWriteByte \/ ProdCommit \/ ProdRotate
    \/ GeoProdBegin \/ GeoProdCommit
    \/ FrameConnect \/ GeoConnect
    \/ FrameSpinCall \/ FrameSpinS1 \/ FrameSpinS2
    \/ FrameFastCall \/ FrameFastSeq
    \/ GeoSpinCall \/ GeoSpinS1 \/ GeoSpinS2 \/ GeoFast

SpecSeq == InitSeq /\ [][NextSeq]_vars

----------------------------------------------------------------------------
(* Properties of the seqlock protocol (specification Spec) *)

FrameReadOps == {"latest_frame_view", "latest_frame_view_fast"}
GeoReadOps == {"latest", "latest_fast"}
SpinOps == {"latest_frame_view", "latest"}
FastOps == {"latest_frame_view_fast", "latest_fast"}
ReadOps == FrameReadOps \cup GeoReadOps

\* The reader an operation belongs to.
Who(op) == IF op \in FrameReadOps \/ op = "FrameShmReader.connect" THEN "fb"
           ELSE IF op \in GeoReadOps \/ op = "GeoShmReader.connect" THEN "geo"
           ELSE "reg"
LastSeqOf(who) == IF who = "fb" THEN fbr.last_seq ELSE geo.last_seq
MappedOf(who) == IF who = "fb" THEN fbr.mm ELSE IF who = "geo" THEN geo.mm ELSE reg.mm
FdOf(who) == IF who = "fb" THEN fbr.fd ELSE IF who = "geo" THEN geo.fd ELSE reg.fd

\* The last attempt of the finished call read the sequence twice and found
\* both values equal and odd.
StableOdd(rt) == Len(rt.seqs) = 2 /\ rt.seqs[1] = rt.seqs[2] /\ Odd(rt.seqs[1])

\* C1 (as claimed): all pixel bytes a poll tick reads through the view a
\* Frame read returned come from one single producer write; the tick never
\* holds bytes of two different writes.
C1_NoTornFrame ==
    \A i, j \in 1..Len(tick.got) : tick.got[i] = tick.got[j]

\* C2 (as claimed): every read operation of the Frame and Geometry readers
\* reports a payload as valid if and only if the sequence read before and the
\* sequence re-read after are equal and odd.
C2_ValidIffStableOdd_AllReads ==
    ret.op \in ReadOps => (ret.res = "view" <=> StableOdd(ret))

\* C2 (amended): the bounded-spin reads report a payload as valid iff the
\* last attempt's two sequence reads are equal and odd; the immediate reads
\* re-read nothing and report a payload as valid iff the one sequence value
\* they read is odd.
C2_ValidIffStableOdd ==
    /\ ret.op \in SpinOps => (ret.res = "view" <=> StableOdd(ret))
    /\ ret.op \in FastOps =>
          (ret.res = "view" <=> (Len(ret.seqs) = 1 /\ Odd(ret.seqs[1])))

\* A bounded-spin Frame read whose last attempt read an odd sequence, re-read
\* a different one, and reported no payload.
C2_Witness ==
    /\ ret.op = "latest_frame_view" /\ ret.res = "none"
    /\ Len(ret.seqs) = 2 /\ Odd(ret.seqs[1]) /\ ret.seqs[1] # ret.seqs[2]

\* C3: the immediate Frame read on a connected reader reads the active
\* buffer's sequence exactly once; an even value returns unavailable with no
\* retry; an odd value is returned with a view of exactly height*stride bytes
\* that starts 8 bytes into the buffer selected by the active_index this call
\* read.
C3_FastFrameRead ==
    /\ (call.op = "latest_frame_view_fast" /\ call.pc = "fast_seq") => call.nseq = 0
    /\ (ret.op = "latest_frame_view_fast" /\ fbr.mm) =>
          /\ ret.nseq = 1 /\ ret.attempts = 1 /\ Len(ret.seqs) = 1
          /\ ~Odd(ret.seqs[1]) => ret.res = "none"
          /\ Odd(ret.seqs[1]) =>
                /\ ret.res = "view"
                /\ ret.seq = ret.seqs[1]
                /\ ret.view.len = fbSeg.h * fbSeg.stride
                /\ ret.view.off = SegBufBase(fbSeg, ret.active) + 8

\* An immediate Frame read that returned sequence 3 with a view of buffer 1.
C3_Witness ==
    /\ ret.op = "latest_frame_view_fast" /\ ret.res = "view"
    /\ ret.seq = 3 /\ ret.active = 1

\* C4: a bounded-spin read called with max_spins = N (no inter-spin delay)
\* that finds no stable sequence makes exactly N attempts, then returns
\* unavailable with the last known sequence; while it runs it has made at
\* most N attempts, so it ends.
C4_BoundedSpin ==
    /\ (call.op \in SpinOps /\ call.pc # "idle") =>
          /\ call.spins < call.max_spins
          /\ call.attempts <= call.max_spins
    /\ (ret.op \in SpinOps /\ MappedOf(Who(ret.op)) /\ ret.sleep_ns = 0
          /\ ret.res # "view") =>
          /\ ret.res = "none"
          /\ ret.attempts = ret.max_spins
          /\ ret.seq = okSeq[Who(ret.op)]

\* A Frame read with max_spins = 2, after an earlier successful read, whose
\* first attempt saw the sequence change and whose second saw it even.
C4_Witness ==
    /\ ret.op = "latest_frame_view" /\ ret.res = "none"
    /\ ret.max_spins = 2 /\ ret.attempts = 2 /\ ret.nseq = 3
    /\ okSeq.fb > 0

\* C5: a read that returns unavailable returns the sequence of the reader's
\* most recent successful read (0 if none) and leaves the stored last
\* sequence as it was; the stored last sequence is always the sequence the
\* most recent successful read returned.
C5_UnavailableKeepsLast ==
    /\ fbr.last_seq = okSeq.fb
    /\ geo.last_seq = okSeq.geo
    /\ (ret.op \in ReadOps /\ ret.res = "none") =>
          /\ ret.seq = okSeq[Who(ret.op)]
          /\ LastSeqOf(Who(ret.op)) = ret.last0

\* latest_fast found the sequence even after an earlier successful read.
C5_Witness ==
    /\ ret.op = "latest_fast" /\ ret.res = "none"
    /\ Len(ret.seqs) = 1 /\ ~Odd(ret.seqs[1])
    /\ okSeq.geo > 0 /\ ret.seq = okSeq.geo

\* Sequence b may follow sequence a (0: no read yet) as the result of the
\* next successful read of the same buffer.
SeqFollows(a, b) ==
    b = a \/ (Odd(b) /\ b > a /\ (a # 0 => (b - a) % 2 = 0))

\* C22: with a producer that advances a buffer's sequence by one at the start
\* and by one at the end of every write, the sequences successive successful
\* reads of one buffer return (every successful latest / latest_fast for the
\* Geometry buffer; the successful Frame reads that hit one buffer index) are
\* all odd and never decrease, and two consecutive distinct values differ by
\* a multiple of two.
C22_SeqOddMonotone ==
    [][/\ SeqFollows(okSeq.geo, okSeq'.geo)
       /\ \A b \in DOMAIN okSeq.buf : SeqFollows(okSeq.buf[b], okSeq'.buf[b])]_vars

\* An immediate Frame read of buffer 0 returned 3 when the last successful
\* Frame read before it had returned 1 (buffer 1 never held a stable 1 while
\* active), and the last successful Geometry read returned 3.
C22_Witness ==
    /\ ret.op = "latest_frame_view_fast" /\ ret.res = "view"
    /\ ret.active = 0 /\ ret.seq = 3 /\ ret.last0 = 1
    /\ okSeq.buf[0] = 3 /\ okSeq.geo = 3

\* A read of a connected reader has returned, it made at least one attempt
\* (no inter-spin delay), and the segment's producer has not moved since it
\* began: it is between writes and has completed as many as when the read
\* began.
ReadInQuiet ==
    /\ call.pc = "idle" /\ ret.op \in ReadOps /\ MappedOf(Who(ret.op))
    /\ ret.sleep_ns = 0 /\ (ret.op \in SpinOps => ret.max_spins >= 1)
    /\ IF ret.op \in GeoReadOps
       THEN gprod.pc = "idle" /\ okSeq.began = gprod.n
       ELSE prod.pc = "idle" /\ okSeq.began = prod.n

\* C23: latest wins: when the producer has completed a write (the buffer's
\* sequence is odd and active_index points at it) and writes no more, the
\* next read of a connected reader returns that write's sequence and a view
\* of that write's payload, never an older completed write.
C23_LatestWins ==
    /\ (ReadInQuiet /\ ret.op \in FrameReadOps) =>
          /\ ret.res = "view"
          /\ ret.active = fbActive /\ ret.seq = fbSeq[fbActive]
          /\ ret.view = [off |-> SegBufBase(fbSeg, fbActive) + SEQ64_size,
                         len |-> PayLen(fbSeg)]
          /\ prod.n > 0 => \A k \in 1..PayLen(fbSeg) : fbPay[fbActive][k] = prod.n
    /\ (ReadInQuiet /\ ret.op \in GeoReadOps) =>
          /\ ret.res = "view" /\ ret.seq = gmSeq

\* The producer completed two writes (buffer 1, then buffer 0, whose sequence
\* is now 3) and the bounded-spin Frame read that began afterwards returned
\* sequence 3 of buffer 0, after an earlier read had returned buffer 1.
C23_Witness ==
    /\ ReadInQuiet /\ ret.op = "latest_frame_view" /\ prod.n = 2
    /\ ret.seq = 3 /\ ret.active = 0 /\ okSeq.buf[1] = 3

----------------------------------------------------------------------------
(* Attaching: one segment is whatever the consumer may find under its name  *)
(* (missing, empty, truncated, foreign magic, other version or format), the *)
(* other two are as a conforming producer creates them; memory is still.    *)

FrameDims == {[w |-> 1, h |-> 1, stride |-> 3, bufcnt |-> 2],
              [w |-> 2, h |-> 1, stride |-> 6, bufcnt |-> 1]}
GeoDims == {[count |-> 1, w |-> 1, h |-> 1], [count |-> 2, w |-> 2, h |-> 1]}
RegCounts == 0..2

MissingFrameSeg == [GoodFrameSeg EXCEPT !.exists = FALSE, !.size = 0]
MissingGeoSeg == [GoodGeoSeg EXCEPT !.exists = FALSE, !.size = 0]
MissingRegSeg == [GoodRegSeg EXCEPT !.exists = FALSE, !.size = 0]

FrameShapes ==
    {MissingFrameSeg} \cup
    UNION {
      LET full == FrameSeg(m, v, f, d.w, d.h, d.stride, d.bufcnt, 0) IN
      {[full EXCEPT !.size = sz] :
          sz \in {FrameImplied(full), FrameImplied(full) - 1, FB_HDR_size,
                  FB_HDR_size - 1, 0}}
      : m \in {MAGIC, 0}, v \in {VERSION, VERSION + 1},
        f \in {FMT_RGB888, FMT_RGB888 + 1}, d \in FrameDims }

GeoShapes ==
    {MissingGeoSeg} \cup
    UNION {
      LET full == GeoSeg(m, d.count, d.w, d.h, 0) IN
      {[full EXCEPT !.size = sz] :
          sz \in {GeoImplied(full), GeoImplied(full) - 1, GEO_hdr_size,
                  GEO_unpack_size - 1, 0}}
      : m \in {GEOM_MAGIC, 0}, d \in GeoDims }

RegShapes ==
    {MissingRegSeg} \cup
    UNION {
      LET full == RegSeg(m, v, n, 0) IN
      {[full EXCEPT !.size = sz] : sz \in {RegImplied(full), RegImplied(full) - 1, 0}}
      : m \in {REG_MAGIC, 0}, v \in {VERSION, VERSION + 1}, n \in RegCounts }

InitConnect ==
    /\ \/ fbSeg \in FrameShapes /\ gmSeg = GoodGeoSeg /\ rgSeg = GoodRegSeg
       \/ fbSeg = GoodFrameSeg /\ gmSeg \in GeoShapes /\ rgSeg = GoodRegSeg
       \/ fbSeg = GoodFrameSeg /\ gmSeg = GoodGeoSeg /\ rgSeg \in RegShapes
    /\ fbActive \in 0..1
    /\ \E q \in 1..2 : fbSeq = [i \in 0..1 |-> q]
    /\ fbPay = [i \in 0..1 |-> [k \in 1..6 |-> 0]]
    /\ gmSeq \in 1..2
    /\ prod = NoProd
    /\ gprod = NoGProd
    /\ rgCams = GoodRegCams(FitCams(rgSeg))
    /\ NoCameras /\ NoControl
    /\ FreshConsumer
    /\ okSeq = NoOkSeq({})

\* The producer creates a segment the consumer has been waiting for.
CreateFrame ==
    /\ ~fbSeg.exists
    /\ fbSeg' = GoodFrameSeg
    /\ UNCHANGED <<gmSeg, rgSeg, memVars, prodVars, fbr, geo, reg, call, ret, tick,
                   okSeq, notReadySeen, extVars>>

CreateGeo ==
    /\ ~gmSeg.exists
    /\ gmSeg' = GoodGeoSeg
    /\ UNCHANGED <<fbSeg, rgSeg, memVars, prodVars, fbr, geo, reg, call, ret, tick,
                   okSeq, notReadySeen, extVars>>

CreateReg ==
    /\ ~rgSeg.exists
    /\ rgSeg' = GoodRegSeg
    /\ rgCams' = GoodRegCams(GoodRegSeg.count)
    /\ UNCHANGED <<fbSeg, gmSeg, memVars, prodVars, fbr, geo, reg, call, ret, tick,
                   okSeq, notReadySeen, ctSeg, ctrl, held, viewVars>>

\* open_mmap(path) of the standalone viewer uc3d_view.py: os.open with
\* O_RDWR, mmap of the whole file with PROT_READ | PROT_WRITE, and the
\* descriptor closed in the finally.
open_mmap(seg) ==
    IF ~seg.exists THEN "FileNotFoundError"
    ELSE IF seg.size = 0 THEN "ValueError"
    ELSE "ok"

\* The standalone viewer opens the Frame segment.
ViewerOpen ==
    /\ ConsumerIdle
    /\ ret' = ConnectRet("open_mmap", open_mmap(fbSeg), fbSeg)
    /\ UNCHANGED <<segVars, memVars, prodVars, fbr, geo, reg, call, tick, okSeq,
                   notReadySeen, extVars>>

NextConnect ==
    \/ CreateFrame \/ CreateGeo \/ CreateReg
    \/ RegConnect \/ FrameConnect \/ GeoConnect \/ ViewerOpen
    \/ FrameFastCall \/ FrameFastSeq
    \/ GeoFast

SpecConnect == InitConnect /\ [][NextConnect]_vars

----------------------------------------------------------------------------
(* Properties of connect() (specification SpecConnect) *)

ConnectOps == {"RegistryReader.connect", "FrameShmReader.connect",
               "GeoShmReader.connect"}

\* The header the segment carries has the expected magic and version.
HeaderValid(op, seg) ==
    IF op = "FrameShmReader.connect"
    THEN seg.size >= FB_HDR_size /\ seg.magic = MAGIC /\ seg.ver = VERSION
    ELSE IF op = "GeoShmReader.connect"
    THEN seg.size >= GEO_hdr_size /\ seg.magic = GEOM_MAGIC
    ELSE seg.size >= REG_HDR_size /\ seg.magic = REG_MAGIC /\ seg.ver = VERSION

\* The size the header of the segment implies.
Implied(op, seg) ==
    IF op = "FrameShmReader.connect" THEN FrameImplied(seg)
    ELSE IF op = "GeoShmReader.connect" THEN GeoImplied(seg)
    ELSE RegImplied(seg)

\* C6: on a segment whose header carries the expected magic and version,
\* connect() succeeds and the reader then holds exactly the header's width,
\* height, stride and buffer_count with onebuf_size = 8 + height*stride
\* (Frame), or its point_count, width and height (Geometry).
C6_ConnectExposesHeader ==
    /\ (ret.op = "FrameShmReader.connect" /\ ret.seg.exists
          /\ HeaderValid(ret.op, ret.seg)) =>
          /\ ret.res = "ok" /\ fbr.mm
          /\ fbr.width = ret.seg.w /\ fbr.height = ret.seg.h
          /\ fbr.stride = ret.seg.stride /\ fbr.bufcnt = ret.seg.bufcnt
          /\ fbr.onebuf_size = 8 + ret.seg.h * ret.seg.stride
    /\ (ret.op = "GeoShmReader.connect" /\ ret.seg.exists
          /\ HeaderValid(ret.op, ret.seg)) =>
          /\ ret.res = "ok" /\ geo.mm
          /\ geo.count = ret.seg.count /\ geo.width = ret.seg.w
          /\ geo.height = ret.seg.h

\* A Frame reader connected to the 2x1 segment of stride 6 and one buffer.
C6_Witness ==
    /\ ret.op = "FrameShmReader.connect" /\ ret.res = "ok"
    /\ HeaderValid(ret.op, ret.seg)
    /\ fbr.width = 2 /\ fbr.stride = 6 /\ fbr.bufcnt = 1 /\ fbr.onebuf_size = 14

\* C7 (as claimed): a connect() that returns successfully has seen the
\* expected magic and the expected version; any mismatch fails it.
C7_ConnectRejectsMagicOrVersion ==
    (ret.op \in ConnectOps /\ ret.res = "ok") =>
        /\ ret.seg.magic = (IF ret.op = "FrameShmReader.connect" THEN MAGIC
                            ELSE IF ret.op = "GeoShmReader.connect" THEN GEOM_MAGIC
                            ELSE REG_MAGIC)
        /\ ret.op # "GeoShmReader.connect" => ret.seg.ver = VERSION

\* C8 (as claimed): FrameShmReader.connect() succeeds only if the header's
\* pixel_format is RGB888 (0).
C8_ConnectRequiresRGB888 ==
    (ret.op = "FrameShmReader.connect" /\ ret.res = "ok") =>
        ret.seg.fmt = FMT_RGB888

\* C9 (as claimed): a connect() that returns successfully has mapped at least
\* the size its header implies; a shorter mapping fails it.
C9_ShortMappingRejected ==
    (ret.op \in ConnectOps /\ ret.res = "ok") =>
        ret.seg.size >= Implied(ret.op, ret.seg)

\* C10: connect() on a missing segment raises FileNotFoundError and leaves
\* the reader with no mapping and no descriptor, and a connect() of that
\* reader after the producer has created the segment succeeds.
C10_NotReadyThenConnects ==
    /\ (ret.op \in ConnectOps /\ ~ret.seg.exists) =>
          /\ ret.res = "FileNotFoundError"
          /\ ~FdOf(Who(ret.op)) /\ ~MappedOf(Who(ret.op))
    /\ (ret.op \in ConnectOps /\ Who(ret.op) \in notReadySeen /\ ret.seg.exists) =>
          /\ ret.res = "ok"
          /\ FdOf(Who(ret.op)) /\ MappedOf(Who(ret.op))

\* A Frame reader that was told FileNotFoundError and has now connected.
C10_Witness ==
    /\ ret.op = "FrameShmReader.connect" /\ ret.res = "ok"
    /\ "fb" \in notReadySeen /\ fbr.mm /\ fbr.fd

\* C21: the consumer maps Registry, Frame and Geometry segments read-only:
\* every mapping one of its opening operations makes of such a segment has
\* protection PROT_READ alone, so that no operation of the consumer can
\* change a byte of the segment.
C21_ConsumerMapsReadOnly ==
    (ret.op \in ConnectOps \cup {"open_mmap"} /\ ret.prot # {}) =>
        ret.prot = {"PROT_READ"}

----------------------------------------------------------------------------
(* RegistryReader.list_cameras and RegistryReader.close *)

\* name_b.split(b'\x00', 1)[0]: the bytes before the first nul, all of them
\* when the field holds no nul.
BeforeNul(bs) ==
    LET nuls == {i \in 1..Len(bs) : bs[i] = 0} IN
    IF nuls = {} THEN bs
    ELSE SubSeq(bs, 1, (CHOOSE i \in nuls : \A j \in nuls : i <= j) - 1)

\* bytes.decode('utf-8', 'ignore') over the modelled bytes: ASCII bytes
\* decode to themselves, the byte 0xFF is valid nowhere in UTF-8 and is dropped.
Decode(bs) == SelectSeq(bs, LAMBDA b : b < 128)

\* The dictionary list_cameras builds from one unpacked descriptor.
CamDict(d) ==
    [name |-> Decode(BeforeNul(d.name)), index |-> d.index, count |-> d.count,
     width |-> d.width, height |-> d.height]

\* Variant of RegistryReader_list_cameras that decodes the whole name field
\* instead of the bytes before its first nul.
RegistryReader_list_cameras_noSplit(r, seg, cams) ==
    IF ~r.mm THEN [res |-> "list", cams |-> << >>]
    ELSE IF ~CanUnpack(seg.size, 0, REG_HDR_size)
         THEN [res |-> "struct.error", cams |-> << >>]
    ELSE IF seg.magic # REG_MAGIC THEN [res |-> "list", cams |-> << >>]
    ELSE IF \E i \in 1..seg.count :
               ~CanUnpack(seg.size, REG_HDR_size + (i - 1) * REG_CAM_size, REG_CAM_size)
         THEN [res |-> "struct.error", cams |-> << >>]
    ELSE [res |-> "list",
          cams |-> [i \in 1..seg.count |->
                       [CamDict(cams[i]) EXCEPT !.name = Decode(cams[i].name)]]]

\* RegistryReader.list_cameras: [] without a mapping; the header unpacked at
\* 0; [] on a foreign magic (the version is unpacked and not looked at); then
\* `count` descriptors unpacked at 12, 60, ...; struct.unpack_from raises
\* struct.error where a header or a descriptor runs past the mapping.
RegistryReader_list_cameras(r, seg, cams) ==
    IF ~r.mm THEN [res |-> "list", cams |-> << >>]
    ELSE IF ~CanUnpack(seg.size, 0, REG_HDR_size)
         THEN [res |-> "struct.error", cams |-> << >>]
    ELSE IF seg.magic # REG_MAGIC THEN [res |-> "list", cams |-> << >>]
    ELSE IF \E i \in 1..seg.count :
               ~CanUnpack(seg.size, REG_HDR_size + (i - 1) * REG_CAM_size, REG_CAM_size)
         THEN [res |-> "struct.error", cams |-> << >>]
    ELSE [res |-> "list", cams |-> [i \in 1..seg.count |-> CamDict(cams[i])]]

\* RegistryReader.close: unmap when mapped, close the descriptor when there
\* is one, forget both.  No view of a Registry mapping is ever handed out.
RegistryReader_close(r) == [r EXCEPT !.mm = FALSE, !.fd = FALSE]

\* A close ends the reader's tie to its mapping, so no view of its current
\* mapping is held.
NoteClose(who) == held' = held \ {who}

ListCameras ==
    /\ ConsumerIdle
    /\ LET o == RegistryReader_list_cameras(reg, rgSeg, rgCams) IN
       ret' = [ConnectRet("RegistryReader.list_cameras", o.res, rgSeg)
                  EXCEPT !.cams = o.cams]
    /\ UNCHANGED <<segVars, memVars, prodVars, fbr, geo, reg, call, tick, okSeq,
                   notReadySeen, extVars>>

RegClose ==
    /\ ConsumerIdle
    /\ reg' = RegistryReader_close(reg)
    /\ ret' = [ConnectRet("RegistryReader.close", "ok", rgSeg) EXCEPT !.obj0 = reg]
    /\ NoteClose("reg")
    /\ UNCHANGED <<segVars, memVars, prodVars, fbr, geo, call, tick, okSeq,
                   notReadySeen, rgCams, ctSeg, ctrl, viewVars>>

----------------------------------------------------------------------------
(* The Registry: whatever lies under its name, with any descriptors *)

RegNames == {<<65, 66, 0>>, <<65, 0, 66>>, <<65, 66, 67>>, <<65, 255, 0>>}
RegDescs == {Desc(nm, ix, 1, 1, 1) : nm \in RegNames, ix \in {0, 1}}

InitRegistry ==
    /\ fbSeg = GoodFrameSeg
    /\ gmSeg = GoodGeoSeg
    /\ rgSeg \in RegShapes
    /\ rgCams \in [1..FitCams(rgSeg) -> RegDescs]
    /\ fbActive = 0
    /\ fbSeq = [i \in 0..(GoodFrameSeg.bufcnt - 1) |-> 1]
    /\ fbPay = [i \in 0..(GoodFrameSeg.bufcnt - 1) |->
                   [k \in 1..PayLen(GoodFrameSeg) |-> 0]]
    /\ gmSeq = 1
    /\ prod = NoProd
    /\ gprod = NoGProd
    /\ NoCameras /\ NoControl
    /\ FreshConsumer
    /\ okSeq = NoOkSeq({})

NextRegistry == CreateReg \/ RegConnect \/ ListCameras \/ RegClose

SpecRegistry == InitRegistry /\ [][NextRegistry]_vars

ListOp == "RegistryReader.list_cameras"

\* A name field whose bytes before the first nul are valid UTF-8.
ValidName(bs) == \A i \in 1..Len(BeforeNul(bs)) : BeforeNul(bs)[i] < 128

\* C11: on a connected Registry whose header is valid and whose camera_count
\* is n, list_cameras returns exactly n descriptors, the i-th carrying the
\* index, point_count, width and height of the i-th descriptor in the file and
\* as its name the bytes of that descriptor's name field before the first nul
\* (names being UTF-8, as the format says); none when n = 0.
C11_ListCameras ==
    (ret.op = ListOp /\ reg.mm /\ HeaderValid("RegistryReader.connect", ret.seg)
        /\ ret.seg.size >= RegImplied(ret.seg)) =>
        /\ ret.res = "list"
        /\ Len(ret.cams) = ret.seg.count
        /\ \A i \in 1..ret.seg.count :
              /\ ret.cams[i].index = rgCams[i].index
              /\ ret.cams[i].count = rgCams[i].count
              /\ ret.cams[i].width = rgCams[i].width
              /\ ret.cams[i].height = rgCams[i].height
              /\ ValidName(rgCams[i].name) =>
                    ret.cams[i].name = BeforeNul(rgCams[i].name)

\* Two descriptors listed in file order: camera 1 named "A" (its field holds
\* bytes after the nul), then camera 0 whose name fills the field.
C11_Witness ==
    /\ ret.op = ListOp /\ ret.res = "list" /\ Len(ret.cams) = 2
    /\ ret.cams[1].name = <<65>> /\ ret.cams[1].index = 1
    /\ ret.cams[2].name = <<65, 66, 67>> /\ ret.cams[2].index = 0

\* C12 (as claimed): list_cameras always returns a sequence, and an empty one
\* whenever the reader is not connected or the header is not valid.
C12_ListCamerasNeverFails ==
    ret.op = ListOp =>
        /\ ret.res = "list"
        /\ (~reg.mm \/ ~HeaderValid("RegistryReader.connect", ret.seg)) =>
              ret.cams = << >>

----------------------------------------------------------------------------
(* close() of the Frame and Geometry readers; the Control writer *)

\* Variant of FrameShmReader_close whose unmapping does not look at the
\* views exported from the mapping.
FrameShmReader_close_unmapAnyway(r, exported) ==
    [reader |-> [r EXCEPT !.mm = FALSE, !.fd = FALSE], res |-> "ok",
     unmapped |-> r.mm, fd_closed |-> r.fd]

\* Variant of FrameShmReader_close without the `finally`: a close that raises
\* leaves the reader's mapping and descriptor in place.
FrameShmReader_close_noFinally(r, exported) ==
    IF r.mm /\ exported
    THEN [reader |-> r, res |-> "BufferError", unmapped |-> FALSE, fd_closed |-> FALSE]
    ELSE [reader |-> [r EXCEPT !.mm = FALSE, !.fd = FALSE], res |-> "ok",
          unmapped |-> r.mm, fd_closed |-> r.fd]

\* FrameShmReader.close: mm.close() when mapped, which raises BufferError
\* while a view of the mapping is exported; then os.close(fd); whatever
\* happened, the `finally` forgets the mapping and the descriptor.
FrameShmReader_close(r, exported) ==
    IF r.mm /\ exported
    THEN [reader |-> [r EXCEPT !.mm = FALSE, !.fd = FALSE], res |-> "BufferError",
          unmapped |-> FALSE, fd_closed |-> FALSE]
    ELSE [reader |-> [r EXCEPT !.mm = FALSE, !.fd = FALSE], res |-> "ok",
          unmapped |-> r.mm, fd_closed |-> r.fd]

\* GeoShmReader.close: the same statements.
GeoShmReader_close(r, exported) ==
    IF r.mm /\ exported
    THEN [reader |-> [r EXCEPT !.mm = FALSE, !.fd = FALSE], res |-> "BufferError",
          unmapped |-> FALSE, fd_closed |-> FALSE]
    ELSE [reader |-> [r EXCEPT !.mm = FALSE, !.fd = FALSE], res |-> "ok",
          unmapped |-> r.mm, fd_closed |-> r.fd]

FrameClose ==
    /\ ConsumerIdle
    /\ LET o == FrameShmReader_close(fbr, "fb" \in held) IN
        /\ fbr' = o.reader
        /\ ret' = [ConnectRet("FrameShmReader.close", o.res, fbSeg) EXCEPT !.obj0 = fbr]
    /\ NoteClose("fb")
    /\ UNCHANGED <<segVars, memVars, prodVars, geo, reg, call, tick, okSeq,
                   notReadySeen, rgCams, ctSeg, ctrl, viewVars>>

GeoClose ==
    /\ ConsumerIdle
    /\ LET o == GeoShmReader_close(geo, "geo" \in held) IN
        /\ geo' = o.reader
        /\ ret' = [ConnectRet("GeoShmReader.close", o.res, gmSeg) EXCEPT !.obj0 = geo]
    /\ NoteClose("geo")
    /\ UNCHANGED <<segVars, memVars, prodVars, fbr, reg, call, tick, okSeq,
                   notReadySeen, rgCams, ctSeg, ctrl, viewVars>>

\* The caller keeps the view its last read returned.
Keep ==
    /\ ConsumerIdle
    /\ ret.op \in ReadOps /\ ret.res = "view" /\ Who(ret.op) \notin held
    /\ held' = held \cup {Who(ret.op)}
    /\ UNCHANGED <<segVars, memVars, prodVars, fbr, geo, reg, call, ret, tick, okSeq,
                   notReadySeen, rgCams, ctSeg, ctrl, viewVars>>

\* The caller releases a view it kept.
Drop ==
    /\ ConsumerIdle
    /\ \E w \in held : held' = held \ {w}
    /\ UNCHANGED <<segVars, memVars, prodVars, fbr, geo, reg, call, ret, tick, okSeq,
                   notReadySeen, rgCams, ctSeg, ctrl, viewVars>>

\* struct 'f': a time scale, kept in hundredths, stored as the nearest 32-bit
\* float; the quarters are stored exactly.
F32(v) == [f32 |-> v, exact |-> (v % 25 = 0)]

\* CTRL_STRUCT.pack(seq, pause, dt_scale, *cam_pos, *cam_look, *cam_up,
\* debug_flags) of writer w.
CtrlPack(w) ==
    [seq |-> w.seq, pause |-> w.pause, dt_scale |-> F32(w.dt_scale),
     cam_pos |-> w.cam_pos, cam_look |-> w.cam_look, cam_up |-> w.cam_up,
     debug_flags |-> w.debug_flags]

\* CtrlShmWriter.connect: SharedMemory(name=...) attaches to an existing
\* segment.
CtrlShmWriter_connect(w, seg) ==
    IF ~seg.exists THEN [writer |-> w, res |-> "FileNotFoundError"]
    ELSE IF seg.size = 0 THEN [writer |-> w, res |-> "ValueError"]
    ELSE [writer |-> [w EXCEPT !.shm = TRUE], res |-> "ok"]

\* Variant of CtrlShmWriter_write that packs the record before it advances
\* the counter.
CtrlShmWriter_write_seqAfter(w, seg) ==
    LET w1 == [w EXCEPT !.seq = w.seq + 1] IN
    IF ~w.shm THEN [writer |-> w1, seg |-> seg, res |-> "AttributeError"]
    ELSE IF seg.size < CTRL_STRUCT_size
         THEN [writer |-> w1, seg |-> seg, res |-> "ValueError"]
    ELSE [writer |-> w1, seg |-> [seg EXCEPT !.rec = CtrlPack(w)], res |-> "ok"]

\* CtrlShmWriter.write: seq += 1, pack, one slice assignment into shm.buf
\* (shm is None on a writer that is not attached; a buffer shorter than the
\* record refuses the assignment).
CtrlShmWriter_write(w, seg) ==
    LET w1 == [w EXCEPT !.seq = w.seq + 1] IN
    IF ~w.shm THEN [writer |-> w1, seg |-> seg, res |-> "AttributeError"]
    ELSE IF seg.size < CTRL_STRUCT_size
         THEN [writer |-> w1, seg |-> seg, res |-> "ValueError"]
    ELSE [writer |-> w1, seg |-> [seg EXCEPT !.rec = CtrlPack(w1)], res |-> "ok"]

\* CtrlShmWriter.close.
CtrlShmWriter_close(w) == [w EXCEPT !.shm = FALSE]

WriteOp == "CtrlShmWriter.write"

CtrlConnect ==
    /\ ConsumerIdle
    /\ LET c == CtrlShmWriter_connect(ctrl, ctSeg) IN
        /\ ctrl' = c.writer
        /\ ret' = ConnectRet("CtrlShmWriter.connect", c.res, NoSeg)
    /\ UNCHANGED <<segVars, memVars, prodVars, fbr, geo, reg, call, tick, okSeq,
                   notReadySeen, rgCams, ctSeg, held, viewVars>>

\* The caller sets local fields of the writer.
CtrlSet ==
    /\ ConsumerIdle
    /\ \E p \in {0, 1}, d \in {100, 37}, pos \in {<<0, 0, 0>>, <<1, 0, 0>>} :
          /\ <<p, d, pos>> # <<ctrl.pause, ctrl.dt_scale, ctrl.cam_pos>>
          /\ ctrl' = [ctrl EXCEPT !.pause = p, !.dt_scale = d, !.cam_pos = pos]
    /\ ret' = ConnectRet("CtrlShmWriter.set", "ok", NoSeg)
    /\ UNCHANGED <<segVars, memVars, prodVars, fbr, geo, reg, call, tick, okSeq,
                   notReadySeen, rgCams, ctSeg, held, viewVars>>

CtrlWrite ==
    /\ ConsumerIdle
    /\ ctrl.seq < MaxCtlWrites
    /\ LET o == CtrlShmWriter_write(ctrl, ctSeg) IN
        /\ ctrl' = o.writer
        /\ ctSeg' = o.seg
        /\ ret' = [ConnectRet(WriteOp, o.res, NoSeg) EXCEPT !.seq = o.writer.seq,
                                                       !.obj0 = ctrl]
    /\ UNCHANGED <<segVars, memVars, prodVars, fbr, geo, reg, call, tick, okSeq,
                   notReadySeen, rgCams, held, viewVars>>

CtrlClose ==
    /\ ConsumerIdle
    /\ ctrl' = CtrlShmWriter_close(ctrl)
    /\ ret' = [ConnectRet("CtrlShmWriter.close", "ok", NoSeg) EXCEPT !.obj0 = ctrl]
    /\ UNCHANGED <<segVars, memVars, prodVars, fbr, geo, reg, call, tick, okSeq,
                   notReadySeen, rgCams, ctSeg, held, viewVars>>

\* The producer creates the Control segment.
CreateCtrl ==
    /\ ~ctSeg.exists
    /\ ctSeg' = GoodCtSeg
    /\ UNCHANGED <<segVars, memVars, prodVars, fbr, geo, reg, call, ret, tick, okSeq,
                   notReadySeen, rgCams, ctrl, held, viewVars>>

----------------------------------------------------------------------------
(* The life of the four channel objects against segments as the producer *)
(* creates them: connect, read, keep and release views, write, close.     *)

InitLifecycle ==
    /\ fbSeg = GoodFrameSeg
    /\ gmSeg = GoodGeoSeg
    /\ rgSeg = GoodRegSeg
    /\ rgCams = GoodRegCams(GoodRegSeg.count)
    /\ fbActive = 0
    /\ fbSeq = [i \in 0..(GoodFrameSeg.bufcnt - 1) |-> 1]
    /\ fbPay = [i \in 0..(GoodFrameSeg.bufcnt - 1) |->
                   [k \in 1..PayLen(GoodFrameSeg) |-> 0]]
    /\ gmSeq = 1
    /\ prod = NoProd
    /\ gprod = NoGProd
    /\ NoCameras /\ NoControl
    /\ FreshConsumer
    /\ okSeq = NoOkSeq({})

NextLifecycle ==
    \/ RegConnect \/ FrameConnect \/ GeoConnect \/ CtrlConnect
    \/ FrameSpinCall \/ FrameSpinS1 \/ FrameSpinS2
    \/ FrameFastCall \/ FrameFastSeq
    \/ GeoSpinCall \/ GeoSpinS1 \/ GeoSpinS2 \/ GeoFast
    \/ ListCameras
    \/ Keep \/ Drop
    \/ CreateCtrl
    \/ RegClose \/ FrameClose \/ GeoClose \/ CtrlClose

SpecLifecycle == InitLifecycle /\ [][NextLifecycle]_vars

CloseOp(who) ==
    IF who = "fb" THEN "FrameShmReader.close"
    ELSE IF who = "geo" THEN "GeoShmReader.close"
    ELSE IF who = "reg" THEN "RegistryReader.close"
    ELSE "CtrlShmWriter.close"

Channels == {"fb", "geo", "reg", "ctrl"}

\* The channel object, and whether an object of that channel is attached to
\* anything.
ChanObj(who) ==
    IF who = "fb" THEN fbr ELSE IF who = "geo" THEN geo
    ELSE IF who = "reg" THEN reg ELSE ctrl
AttachedObj(who, o) == IF who = "ctrl" THEN o.shm ELSE o.mm \/ o.fd

\* C13: close() leaves the channel without mapping and descriptor; a close()
\* of a channel that is already closed or was never connected changes nothing
\* and raises nothing; and a read of a reader that is not mapped, as every
\* closed reader is, returns unavailable with the last sequence
\* (list_cameras: the empty sequence).
C13_CloseIdempotent ==
    /\ \A w \in Channels :
          ret.op = CloseOp(w) =>
              /\ ~AttachedObj(w, ChanObj(w))
              /\ ~AttachedObj(w, ret.obj0) =>
                    ret.res = "ok" /\ ChanObj(w) = ret.obj0
    /\ (ret.op \in ReadOps /\ ~MappedOf(Who(ret.op))) =>
          /\ ret.res = "none" /\ ret.view = NoView
          /\ ret.seq = LastSeqOf(Who(ret.op))
    /\ (ret.op = ListOp /\ ~reg.mm) => (ret.res = "list" /\ ret.cams = << >>)

\* close() of a Frame reader that had returned a sequence and was closed
\* already.
C13_Witness ==
    /\ ret.op = CloseOp("fb") /\ ret.res = "ok"
    /\ ~ret.obj0.mm /\ ~ret.obj0.fd /\ ret.obj0.last_seq > 0

----------------------------------------------------------------------------
(* The Control writer against the segment the producer creates *)

NextControl == CreateCtrl \/ CtrlConnect \/ CtrlSet \/ CtrlWrite \/ CtrlClose

SpecControl == InitLifecycle /\ [][NextControl]_vars

\* C19: a write() on an attached writer advances the counter by exactly one,
\* changes nothing else of the writer, and leaves in the segment the record
\* packed from the new counter and the writer's pause, time scale (as a
\* 32-bit float), position, look, up and debug flags at the call.
C19_WriteAdvancesAndPublishes ==
    (ret.op = WriteOp /\ ret.obj0.shm) =>
        /\ ret.res = "ok"
        /\ ctrl = [ret.obj0 EXCEPT !.seq = ret.obj0.seq + 1]
        /\ ret.seq = ctrl.seq
        /\ ctSeg.rec = CtrlPack(ctrl)
        /\ ctSeg.rec.seq = ret.obj0.seq + 1

\* The second record published: sequence 2, paused, time scale 0.37.
C19_Witness ==
    /\ ret.op = WriteOp /\ ret.res = "ok" /\ ret.seq = 2
    /\ ctSeg.rec.seq = 2 /\ ctSeg.rec.pause = 1 /\ ctSeg.rec.dt_scale = F32(37)
    /\ ctrl.seq = 2

----------------------------------------------------------------------------
(* The Viewport: the reader objects it creates, camera switches, the       *)
(* deferred close, the poll tick and shutdown.  Handlers run one at a time *)
(* on the event loop, so each is one step.                                 *)

\* A reader object the Viewport created: its kind, the camera index in its
\* segment name, the reader, whether the mapping it made is still mapped and
\* whether the descriptor it opened is still open.
NewObj(kind, cam) ==
    [kind |-> kind, cam |-> cam,
     r |-> IF kind = "fb" THEN FrameShmReader_init ELSE GeoShmReader_init,
     mapped |-> FALSE, fd_open |-> FALSE]

MissingCam == [fb |-> MissingFrameSeg, gm |-> MissingGeoSeg]

\* The segments named /uc3d_fb{idx} and /uc3d_geom{idx}.
SegOf(segs, idx) == IF idx \in DOMAIN segs THEN segs[idx] ELSE MissingCam

\* The reader object o after its connect() ended as c.
Connected(o, c) ==
    [obj |-> [o EXCEPT !.r = c.reader, !.mapped = c.reader.mm, !.fd_open = c.reader.fd],
     res |-> c.res]

\* FrameShmReader(fb_name).connect() / GeoShmReader(geom_name).connect().
ConnectObj(o, segs) ==
    Connected(o, IF o.kind = "fb"
                 THEN FrameShmReader_connect(o.r, SegOf(segs, o.cam).fb)
                 ELSE GeoShmReader_connect(o.r, SegOf(segs, o.cam).gm))

\* A view is exported from the mapping of object id while _view_keepalive or
\* another caller holds it.
Exported(id, keep, bor) == id = keep \/ id \in bor

\* The mmap object lives, and its memory stays mapped, as long as its reader
\* or a view refers to it; it is unmapped when the last of them lets go.
Settle(os, keep, bor) ==
    [id \in 1..Len(os) |->
        [os[id] EXCEPT !.mapped = @ /\ (os[id].r.mm \/ Exported(id, keep, bor))]]

\* The reader object o after its close() ended as c.
Closed(o, c) ==
    [obj |-> [o EXCEPT !.r = c.reader, !.mapped = @ /\ ~c.unmapped,
                       !.fd_open = @ /\ ~c.fd_closed],
     res |-> c.res]

\* close() of reader object o.
CloseObj(o, exported) ==
    Closed(o, IF o.kind = "fb" THEN FrameShmReader_close(o.r, exported)
              ELSE GeoShmReader_close(o.r, exported))

\* `if x: x.close()` for the reader object with identity id among os.
PutClosed(os, id, c) == [objs |-> [os EXCEPT ![id] = c.obj], res |-> c.res]
CloseIn(os, id, keep, bor) ==
    IF id = 0 THEN [objs |-> os, res |-> "ok"]
    ELSE PutClosed(os, id, CloseObj(os[id], Exported(id, keep, bor)))

\* What a handler hands back: the Viewport, the reader objects, the
\* scheduled closes, and how it ended.
Out(v, os, pd, res) == [vp |-> v, objs |-> os, pend |-> pd, res |-> res]

\* Variant of Open_geom that assigns the new Geometry reader to the Viewport
\* only after its connect() succeeded.
Open_geom_assignAfterConnect(v, os, pd, idx, go) ==
    Out(IF go.res = "ok" THEN [v EXCEPT !.geom = Len(os) + 1, !.active_idx = idx]
        ELSE v,
        Append(os, go.obj), pd, go.res)

\* _open_camera_by_index after `self._geom = GeoShmReader(geom_name)`, whose
\* connect() ended as go.
Open_geom(v, os, pd, idx, go) ==
    Out(IF go.res = "ok" THEN [v EXCEPT !.geom = Len(os) + 1, !.active_idx = idx]
        ELSE [v EXCEPT !.geom = Len(os) + 1],
        Append(os, go.obj), pd, go.res)

\* Variant of Open_fb that keeps the Geometry reader the Viewport has.
Open_fb_keepGeom(v, os, pd, idx, segs, fo) ==
    IF fo.res # "ok"
    THEN Out([v EXCEPT !.fb = Len(os) + 1], Append(os, fo.obj), pd, fo.res)
    ELSE IF v.geom # 0
    THEN Out([v EXCEPT !.fb = Len(os) + 1, !.active_idx = idx],
             Append(os, fo.obj), pd, "ok")
    ELSE Open_geom([v EXCEPT !.fb = Len(os) + 1], Append(os, fo.obj), pd, idx,
                   ConnectObj(NewObj("geo", idx), segs))

\* _open_camera_by_index after `self._fb = FrameShmReader(fb_name)`, whose
\* connect() ended as fo.
Open_fb(v, os, pd, idx, segs, fo) ==
    IF fo.res # "ok"
    THEN Out([v EXCEPT !.fb = Len(os) + 1], Append(os, fo.obj), pd, fo.res)
    ELSE Open_geom([v EXCEPT !.fb = Len(os) + 1], Append(os, fo.obj), pd, idx,
                   ConnectObj(NewObj("geo", idx), segs))

\* Viewport._open_camera_by_index(idx): remember the old readers, release
\* _view_keepalive, schedule _delayed_close for the old readers, then create
\* and connect the new Frame reader and the new Geometry reader (each is
\* assigned to the Viewport before its connect() runs), then record idx.
\* An exception of a connect() ends the method where it is raised.
Viewport_open_camera_by_index(v, os, pd, idx, segs) ==
    Open_fb([v EXCEPT !.keep = 0, !.opens = @ + 1, !.used = NoUse], os,
            pd \cup {[fb |-> v.fb, geom |-> v.geom]}, idx, segs,
            ConnectObj(NewObj("fb", idx), segs))

\* _delayed_close after the old Geometry reader's close ended as g.
Delayed_end(g) == [objs |-> g.objs, again |-> (g.res = "BufferError")]

\* Variant of Delayed_geom that gives up after a BufferError instead of
\* scheduling the closure again.
Delayed_geom_noRetry(f, p, keep, bor) ==
    IF f.res = "BufferError" THEN [objs |-> f.objs, again |-> FALSE]
    ELSE [Delayed_end(CloseIn(f.objs, p.geom, keep, bor)) EXCEPT !.again = FALSE]

\* Variant of Delayed_geom that handles a BufferError of the old Frame
\* reader's close like an AttributeError: it passes on to the Geometry reader.
Delayed_geom_passBusy(f, p, keep, bor) ==
    [Delayed_end(CloseIn(f.objs, p.geom, keep, bor)) EXCEPT !.again = FALSE]

\* _delayed_close after the old Frame reader's close ended as f: a
\* BufferError schedules the closure again and returns.
Delayed_geom(f, p, keep, bor) ==
    IF f.res = "BufferError" THEN [objs |-> f.objs, again |-> TRUE]
    ELSE Delayed_end(CloseIn(f.objs, p.geom, keep, bor))

\* _delayed_close of closure p = (old_fb, old_geom): close the old Frame
\* reader, then the old Geometry reader.
Viewport_delayed_close(os, p, keep, bor) ==
    Delayed_geom(CloseIn(os, p.fb, keep, bor), p, keep, bor)

\* latest_frame_view_fast after its entry e, against a segment of `size`
\* bytes whose addressed sequence reads `seq`.
FrameFast_rest(e, size, seq) ==
    IF e.call.pc # "fast_seq" THEN e
    ELSE IF CanUnpack(size, e.call.base, SEQ64_size)
         THEN latest_frame_view_fast_seq(e.reader, e.call, size, seq)
         ELSE Over(e.reader, ReadRet(e.call, "struct.error", 0, NoView))

\* The call `self._fb.latest_frame_view_fast()` as a whole, against a segment
\* whose active_index reads `active`.
FrameFastWhole(r, size, active, seq) ==
    FrameFast_rest(latest_frame_view_fast_enter(r, size, active), size, seq)

\* What a tick hands back.
TickOut(v, os, res) == [vp |-> v, objs |-> os, res |-> res]

\* _tick after latest_frame_view_fast ended as fo and the tests on the view
\* ended as a: the pixel reads view[3*i + 0 .. 3*i + 2] for the points i in
\* range(count) (every point taken to land on the target), which raise
\* IndexError past the end of the view, and the view kept in _view_keepalive.
Tick_draw(v, os, g, fo, a, live) ==
    IF fo.ret.res \notin {"view", "none"} THEN TickOut(v, os, fo.ret.res)
    ELSE IF a.res # "go" THEN TickOut(v, os, a.res)
    ELSE IF g.count * 3 > fo.ret.view.len THEN TickOut(v, os, "IndexError")
    ELSE TickOut([v EXCEPT !.keep = v.fb,
                           !.used = [count |-> g.count,
                                     W |-> Max(1, g.width), H |-> Max(1, g.height),
                                     len |-> fo.ret.view.len,
                                     fb |-> v.fb, geom |-> v.geom, live |-> live]],
                 os, "drawn")

\* _tick after latest_fast gave a view: latest_frame_view_fast of the Frame
\* reader, then the None test, the bound check and the coordinate pass.
Tick_fb(v, os, g, fo) ==
    Tick_draw(v, [os EXCEPT ![v.fb].r = fo.reader], g, fo,
              Tick_afterFrame([NoTick EXCEPT !.count = g.count], fo.ret),
              os[v.fb].mapped)

\* Variant of Tick_geo without the `if xy_view is None: return`.
Tick_geo_noNoneTest(v, os, segs, active, fseq, go) ==
    IF go.ret.res \notin {"view", "none"}
    THEN TickOut(v, [os EXCEPT ![v.geom].r = go.reader], go.ret.res)
    ELSE Tick_fb(v, [os EXCEPT ![v.geom].r = go.reader], go.reader,
                 FrameFastWhole(os[v.fb].r, SegOf(segs, os[v.fb].cam).fb.size,
                                active, fseq))

\* _tick after latest_fast of the Geometry reader ended as go.
Tick_geo(v, os, segs, active, fseq, go) ==
    IF go.ret.res # "view"
    THEN TickOut(v, [os EXCEPT ![v.geom].r = go.reader],
                 IF go.ret.res = "none" THEN "skip" ELSE go.ret.res)
    ELSE Tick_fb(v, [os EXCEPT ![v.geom].r = go.reader], go.reader,
                 FrameFastWhole(os[v.fb].r, SegOf(segs, os[v.fb].cam).fb.size,
                                active, fseq))

\* Viewport._tick as a whole: nothing without both readers; latest_fast of
\* the Geometry reader; latest_frame_view_fast of the Frame reader; the bound
\* check; the pass over the coordinates; the pixel reads; the view kept in
\* _view_keepalive.  res is "skip", "drawn" or the exception raised.
Viewport_tick(v, os, segs, active, fseq, gseq) ==
    IF v.fb = 0 \/ v.geom = 0 THEN TickOut(v, os, "skip")
    ELSE Tick_geo(v, os, segs, active, fseq,
                  GeoShmReader_latest_fast(
                      os[v.geom].r, SegOf(segs, os[v.geom].cam).gm.size,
                      CanUnpack(SegOf(segs, os[v.geom].cam).gm.size, GEO_seq_off,
                                SEQ64_size),
                      gseq))

\* What a handler leaves in the history fields.
Ran(v, name, res) ==
    [v EXCEPT !.raised = IF res \in {"ok", "skip", "drawn", "return"}
                         THEN [by |-> "none", exc |-> "none"]
                         ELSE [by |-> name, exc |-> res]]

\* What _try_connect hands back: a handler's outcome and the Control writer.
WithCtrl(o, w) == [vp |-> o.vp, objs |-> o.objs, pend |-> o.pend, ctrl |-> w, res |-> o.res]

\* _try_connect after the first camera was opened, ending as o: _connected
\* is set and the retry timer stopped unless the open raised;
\* FileNotFoundError is swallowed.
Try_opened(o) ==
    IF o.res = "ok"
    THEN [o EXCEPT !.vp = [@ EXCEPT !.connected = TRUE, !.retry_on = FALSE]]
    ELSE IF o.res = "FileNotFoundError" THEN [o EXCEPT !.res = "ok"]
    ELSE o

\* _try_connect after list_cameras ended as lc: with a non-empty list the
\* list is kept, _reg_ok is set and the first camera is opened.
Try_listed(v, os, pd, segs, lc) ==
    IF lc.res # "list" THEN Out(v, os, pd, lc.res)
    ELSE IF lc.cams = << >> THEN Out(v, os, pd, "ok")
    ELSE Try_opened(Viewport_open_camera_by_index(
                       [v EXCEPT !.cams_meta = lc.cams, !.reg_ok = TRUE],
                       os, pd, lc.cams[1].index, segs))

\* _try_connect after the Registry reader's connect() ended as rc.
Try_reg(v, os, pd, rseg, cams, segs, rc) ==
    IF rc.res = "FileNotFoundError" THEN Out(v, os, pd, "ok")
    ELSE IF rc.res # "ok" THEN Out(v, os, pd, rc.res)
    ELSE Try_listed(v, os, pd, segs, RegistryReader_list_cameras(rc.reader, rseg, cams))

\* _try_connect after the Control block: the Registry block, unless the
\* Registry was read before.
Try_registry(v, os, pd, rseg, cams, segs) ==
    IF v.reg_ok THEN Out(v, os, pd, "ok")
    ELSE Try_reg(v, os, pd, rseg, cams, segs,
                 RegistryReader_connect(RegistryReader_init, rseg))

\* _try_connect after ctrl.connect() ended as cc.
Try_ctrl(v, os, pd, rseg, cams, segs, cc) ==
    IF cc.res = "ok"
    THEN WithCtrl(Try_registry([v EXCEPT !.ctrl_ok = TRUE], os, pd, rseg, cams, segs),
                  cc.writer)
    ELSE IF cc.res = "FileNotFoundError"
    THEN WithCtrl(Try_registry(v, os, pd, rseg, cams, segs), cc.writer)
    ELSE WithCtrl(Out(v, os, pd, cc.res), cc.writer)

\* Viewport._try_connect: nothing once connected; the Control writer is
\* connected unless that succeeded before; unless the Registry was read
\* before, it is connected, listed and closed, and with a non-empty list the
\* list is kept, _reg_ok is set, the first camera is opened, and then
\* _connected is set and the retry timer stopped.  FileNotFoundError is
\* swallowed in both blocks; anything else leaves the handler.
Viewport_try_connect(v, os, pd, w, rseg, cams, cseg, segs) ==
    IF v.connected THEN WithCtrl(Out(v, os, pd, "return"), w)
    ELSE IF v.ctrl_ok THEN WithCtrl(Try_registry(v, os, pd, rseg, cams, segs), w)
    ELSE Try_ctrl(v, os, pd, rseg, cams, segs, CtrlShmWriter_connect(w, cseg))

\* _on_cam_changed after the camera was opened, ending as o:
\* FileNotFoundError is swallowed.
Cam_opened(o) == IF o.res = "FileNotFoundError" THEN [o EXCEPT !.res = "ok"] ELSE o

\* Viewport._on_cam_changed(combo_index).
Viewport_on_cam_changed(v, os, pd, combo_index, segs) ==
    IF combo_index < 0 \/ combo_index >= Len(v.cams_meta)
    THEN Out(v, os, pd, "return")
    ELSE IF v.cams_meta[combo_index + 1].index = v.active_idx
    THEN Out(v, os, pd, "return")
    ELSE Cam_opened(Viewport_open_camera_by_index(
                           v, os, pd, v.cams_meta[combo_index + 1].index, segs))

\* Viewport._on_pause / _on_run / _on_dt: nothing unless connected; set the
\* field of the Control writer and write().
Viewport_on_set(v, w, seg, field, val) ==
    IF ~v.connected THEN [ctrl |-> w, seg |-> seg, res |-> "return"]
    ELSE LET o == CtrlShmWriter_write([w EXCEPT ![field] = val], seg)
         IN  [ctrl |-> o.writer, seg |-> o.seg, res |-> o.res]

\* closeEvent after the Geometry reader's close ended as g: the Control
\* writer is closed unless that close raised.
Close_ctrl(v, g, w) ==
    [vp |-> v, objs |-> g.objs,
     ctrl |-> IF g.res = "ok" THEN CtrlShmWriter_close(w) ELSE w, res |-> g.res]

\* closeEvent after the Frame reader's close ended as f.
Close_geom(v, f, w, bor) ==
    IF f.res # "ok" THEN [vp |-> v, objs |-> f.objs, ctrl |-> w, res |-> f.res]
    ELSE Close_ctrl(v, CloseIn(f.objs, v.geom, v.keep, bor), w)

\* Viewport.closeEvent: stop both timers, close the Frame reader, the
\* Geometry reader and the Control writer; an exception of a close() skips
\* the closes after it.
Viewport_closeEvent(v, os, w, bor) ==
    Close_geom([v EXCEPT !.frame_on = FALSE, !.retry_on = FALSE],
               CloseIn(os, v.fb, v.keep, bor), w, bor)

\* The variables the Viewport's handlers leave alone.
soloVars == <<fbSeg, gmSeg, memVars, prodVars, fbr, geo, reg, call, ret, tick,
              okSeq, notReadySeen, held>>

\* A handler named `name` ended as o: what it leaves in the Viewport, the
\* reader objects and the scheduled closes.
Handled(name, o) ==
    /\ vp' = Ran(o.vp, name, o.res)
    /\ objs' = Settle(o.objs, o.vp.keep, borrow)
    /\ pend' = o.pend

\* The retry timer fires.
TryConnect ==
    /\ vp.retry_on /\ vp.frame_on
    /\ vp.opens < MaxOpens
    /\ \E o \in {Viewport_try_connect(vp, objs, pend, ctrl, rgSeg, rgCams, ctSeg,
                                      camSegs)} :
          Handled("_try_connect", o) /\ ctrl' = o.ctrl
    /\ UNCHANGED <<soloVars, rgSeg, rgCams, ctSeg, camSegs, borrow, want>>

\* The user picks an entry of the camera selector.
OnCamChanged ==
    /\ vp.frame_on
    /\ vp.opens < MaxOpens
    /\ \E combo_index \in 0..(Len(vp.cams_meta) - 1) :
       \E o \in {Viewport_on_cam_changed(vp, objs, pend, combo_index, camSegs)} :
          Handled("_on_cam_changed", o)
    /\ UNCHANGED <<soloVars, rgSeg, rgCams, ctSeg, ctrl, camSegs, borrow, want>>

\* A scheduled _delayed_close runs.
DelayedClose ==
    /\ \E p \in pend :
       \E o \in {Viewport_delayed_close(objs, p, vp.keep, borrow)} :
          /\ objs' = Settle(o.objs, vp.keep, borrow)
          /\ pend' = IF o.again THEN pend ELSE pend \ {p}
    /\ UNCHANGED <<soloVars, rgSeg, rgCams, ctSeg, ctrl, camSegs, vp, borrow, want>>

\* What the producer's memory may show a tick: active_index, the Frame
\* sequence and the Geometry sequence.  All stable; a Frame or a Geometry
\* write in progress (even sequence); an active_index equal to bufcnt.
TickInputs(bufcnt) ==
    {<<a, 1, 1>> : a \in 0..bufcnt} \cup {<<0, 2, 1>>, <<0, 1, 2>>}

\* The frame timer fires.
VpTick ==
    /\ vp.frame_on
    /\ \E m \in TickInputs(IF vp.fb = 0 THEN 0
                           ELSE SegOf(camSegs, objs[vp.fb].cam).fb.bufcnt) :
       \E o \in {Viewport_tick(vp, objs, camSegs, m[1], m[2], m[3])} :
          /\ vp' = Ran(o.vp, "_tick", o.res)
          /\ objs' = Settle(o.objs, o.vp.keep, borrow)
    /\ UNCHANGED <<soloVars, rgSeg, rgCams, ctSeg, ctrl, camSegs, pend, borrow, want>>

\* The window is closed.
CloseEvent ==
    /\ vp.frame_on
    /\ \E o \in {Viewport_closeEvent(vp, objs, ctrl, borrow)} :
          /\ vp' = Ran(o.vp, "closeEvent", o.res)
          /\ objs' = Settle(o.objs, o.vp.keep, borrow)
          /\ ctrl' = o.ctrl
    /\ UNCHANGED <<soloVars, rgSeg, rgCams, ctSeg, camSegs, pend, borrow, want>>

\* The user presses Pause or Run or moves the time-scale slider; want is what
\* the user asked for, asked the fields asked for while the Control segment
\* existed and the Viewport was connected.
UserSets(field, val) ==
    /\ vp.frame_on
    /\ ctrl.seq < MaxCtlWrites
    /\ want[field] # val
    /\ want' = [want EXCEPT ![field] = val,
                            !.asked = IF ctSeg.exists /\ vp.connected
                                      THEN @ \cup {field}
                                      ELSE @ \ {field}]
    /\ \E o \in {Viewport_on_set(vp, ctrl, ctSeg, field, val)} :
          /\ ctrl' = o.ctrl
          /\ ctSeg' = o.seg
          /\ vp' = Ran(vp, "_on_" \o field, o.res)
    /\ UNCHANGED <<soloVars, rgSeg, rgCams, camSegs, objs, pend, borrow>>

OnPause == UserSets("pause", 1)
OnRun == UserSets("pause", 0)
OnDt == \E v \in {50, 100} : UserSets("dt_scale", v)

\* Another caller of the Frame reader keeps a view it was handed (one at a
\* time), and later lets it go.
BorrowView ==
    /\ vp.fb # 0 /\ objs[vp.fb].r.mm /\ borrow = {}
    /\ borrow' = borrow \cup {vp.fb}
    /\ UNCHANGED <<soloVars, rgSeg, rgCams, ctSeg, ctrl, camSegs, vp, objs, pend, want>>

ReleaseView ==
    /\ \E id \in borrow :
         /\ borrow' = borrow \ {id}
         /\ objs' = Settle(objs, vp.keep, borrow \ {id})
    /\ UNCHANGED <<soloVars, rgSeg, rgCams, ctSeg, ctrl, camSegs, vp, pend, want>>

\* The producer creates a camera's segments.
\* Camera 0 is the 1x1 camera of one point; the others are 2x1 with one
\* Frame buffer of 6 bytes and as many points as the Registry lists.
CamFrameSeg(i) ==
    IF i = 0 THEN GoodFrameSeg
    ELSE LET s == FrameSeg(MAGIC, VERSION, FMT_RGB888, 2, 1, 6, 1, 0)
         IN  [s EXCEPT !.size = FrameImplied(s)]
CamGeoSeg(i) ==
    IF i = 0 THEN GoodGeoSeg
    ELSE LET s == GeoSeg(GEOM_MAGIC, rgCams[i + 1].count, 2, 1, 0)
         IN  [s EXCEPT !.size = GeoImplied(s)]
TwoCamRegSeg ==
    LET s == RegSeg(REG_MAGIC, VERSION, 2, 0) IN [s EXCEPT !.size = RegImplied(s)]

CreateCamFrame ==
    /\ \E i \in DOMAIN camSegs :
         /\ ~camSegs[i].fb.exists
         /\ camSegs' = [camSegs EXCEPT ![i].fb = CamFrameSeg(i)]
    /\ UNCHANGED <<soloVars, rgSeg, rgCams, ctSeg, ctrl, vp, objs, pend, borrow, want>>

CreateCamGeo ==
    /\ \E i \in DOMAIN camSegs :
         /\ ~camSegs[i].gm.exists
         /\ camSegs' = [camSegs EXCEPT ![i].gm = CamGeoSeg(i)]
    /\ UNCHANGED <<soloVars, rgSeg, rgCams, ctSeg, ctrl, vp, objs, pend, borrow, want>>

\* Parts of the state the Viewport's specifications do not exercise.
SoloIdle ==
    /\ fbSeg = GoodFrameSeg
    /\ gmSeg = GoodGeoSeg
    /\ fbActive = 0
    /\ fbSeq = [i \in 0..(GoodFrameSeg.bufcnt - 1) |-> 1]
    /\ fbPay = [i \in 0..(GoodFrameSeg.bufcnt - 1) |->
                   [k \in 1..PayLen(GoodFrameSeg) |-> 0]]
    /\ gmSeq = 1
    /\ prod = NoProd
    /\ gprod = NoGProd
    /\ FreshConsumer
    /\ okSeq = NoOkSeq({})

----------------------------------------------------------------------------
(* Camera switches: the producer runs with two cameras (the second may    *)
(* have no points, or one of its segments may come later); the Viewport   *)
(* attaches, ticks, switches, and is closed, while another caller may     *)
(* hold a Frame view.                                                     *)

InitSwitch ==
    /\ SoloIdle
    /\ rgSeg = TwoCamRegSeg
    /\ \E n \in {0, 2, 3} : rgCams = <<CamDesc(0), [CamDesc(1) EXCEPT !.count = n]>>
    /\ ctSeg = GoodCtSeg
    /\ \E c \in {[fb |-> CamFrameSeg(1), gm |-> CamGeoSeg(1)],
                  [fb |-> CamFrameSeg(1), gm |-> MissingGeoSeg],
                  [fb |-> MissingFrameSeg, gm |-> CamGeoSeg(1)]} :
          camSegs = [i \in 0..1 |->
                        IF i = 0 THEN [fb |-> CamFrameSeg(0), gm |-> CamGeoSeg(0)]
                        ELSE c]

NextSwitch ==
    \/ TryConnect \/ OnCamChanged \/ DelayedClose \/ VpTick \/ CloseEvent
    \/ BorrowView \/ ReleaseView \/ CreateCamFrame \/ CreateCamGeo

SpecSwitch == InitSwitch /\ [][NextSwitch]_vars

\* The deferred close on its own: both cameras are complete, the window
\* stays open, and the event loop runs every callback it was handed.
InitDefer ==
    /\ SoloIdle
    /\ rgSeg = TwoCamRegSeg
    /\ rgCams = GoodRegCams(TwoCamRegSeg.count)
    /\ ctSeg = GoodCtSeg
    /\ camSegs = [i \in 0..1 |-> [fb |-> CamFrameSeg(i), gm |-> CamGeoSeg(i)]]

NextDefer ==
    \/ TryConnect \/ OnCamChanged \/ DelayedClose \/ VpTick
    \/ BorrowView \/ ReleaseView

SpecDefer == InitDefer /\ [][NextDefer]_vars /\ WF_vars(DelayedClose)

----------------------------------------------------------------------------
(* Properties of camera switches (specification SpecSwitch) *)

\* Reader object id is one a scheduled _delayed_close still has to close.
Outgoing(id) == \E p \in pend : p.fb = id \/ p.geom = id

Retired(id) == id # vp.fb /\ id # vp.geom /\ ~Outgoing(id)

\* C15: when a camera switch asks to close the outgoing readers while a
\* borrowed view of the outgoing Frame mapping is still held, that mapping is
\* not unmapped as long as the view is held; the close callback does not
\* stay scheduled forever; and once the callback is through, an outgoing
\* mapping is unmapped as soon as no view of it is held.
C15_DeferredClose ==
    /\ [](\A id \in borrow : objs[id].mapped)
    /\ [](\A id \in 1..Len(objs) :
            (Retired(id) /\ id \notin borrow) => ~objs[id].mapped)
    /\ (pend # {}) ~> (pend = {})

\* A _delayed_close has met BufferError on an outgoing Frame reader whose
\* view another caller holds: the reader dropped its mapping, the mapping is
\* still mapped, and the callback is scheduled again.
C15_Witness ==
    \E p \in pend :
        /\ p.fb # 0 /\ p.fb \in borrow
        /\ ~objs[p.fb].r.mm /\ objs[p.fb].mapped
        /\ vp.fb # p.fb /\ vp.active_idx = 1

\* C17: no poll tick fails: whatever a tick meets (no attached readers, a
\* write in progress, an active_index beyond the buffers, a camera without
\* points), it returns and does not leave the slot with an exception.
C17_TickNeverFails == vp.raised.by # "_tick"

\* C18: once camera j has been opened, a tick that renders uses the header
\* values of camera j's segments -- point count, target size, and a Frame
\* view of height * stride bytes -- and reads through camera j's readers.
C18_TicksUseNewCamera ==
    (vp.used.fb # 0) =>
        LET j == vp.active_idx
            f == SegOf(camSegs, j).fb
            g == SegOf(camSegs, j).gm
        IN  /\ vp.used.fb = vp.fb /\ vp.used.geom = vp.geom
            /\ objs[vp.fb].cam = j /\ objs[vp.geom].cam = j
            /\ vp.used.count = g.count
            /\ vp.used.W = Max(1, g.w) /\ vp.used.H = Max(1, g.h)
            /\ vp.used.len = f.h * f.stride

\* A tick has rendered camera 1 after a switch away from camera 0.
C18_Witness ==
    /\ vp.used.fb # 0 /\ vp.active_idx = 1 /\ vp.opens = 2
    /\ vp.used.count = 2 /\ vp.used.len = 6
    /\ objs[1].cam = 0 /\ objs[1].r.last_seq > 0

----------------------------------------------------------------------------
(* Lazy attachment: the consumer starts before the producer; the producer  *)
(* creates the Registry, camera 0's two segments and the Control segment   *)
(* in any order while the retry timer and the frame timer run and the user *)
(* uses the controls.                                                      *)

InitAttach ==
    /\ SoloIdle
    /\ rgSeg = MissingRegSeg
    /\ rgCams = GoodRegCams(0)
    /\ ctSeg = MissingCtSeg
    /\ camSegs = [i \in 0..0 |-> MissingCam]

NextAttach ==
    \/ CreateReg \/ CreateCamFrame \/ CreateCamGeo \/ CreateCtrl
    \/ TryConnect \/ DelayedClose \/ VpTick
    \/ OnPause \/ OnRun \/ OnDt

\* A running timer fires again and again, and the event loop runs every
\* callback it was handed.
SpecAttach ==
    InitAttach /\ [][NextAttach]_vars
    /\ WF_vars(TryConnect) /\ WF_vars(DelayedClose) /\ WF_vars(VpTick)

\* The Registry and the first camera's Frame and Geometry segments exist.
ProducerUp ==
    rgSeg.exists /\ camSegs[0].fb.exists /\ camSegs[0].gm.exists

\* The Viewport is connected with both readers attached.
Attached ==
    /\ vp.connected
    /\ vp.fb # 0 /\ objs[vp.fb].r.mm
    /\ vp.geom # 0 /\ objs[vp.geom].r.mm

\* C16: once the producer's Registry, Frame and Geometry segments all
\* exist, the periodic retry eventually has the consumer connected with both
\* readers attached, in whatever order the segments appeared.
C16_EventuallyConnected == ProducerUp ~> Attached

\* C20: a setting the user asked for while the Control segment exists (and
\* the Viewport is connected, so that the handler does write) is eventually
\* the one the published Control record carries, in whatever order the
\* segments were created.
C20_SettingPublished ==
    /\ ("pause" \in want.asked) ~> (ctSeg.rec.pause = want.pause)
    /\ ("dt_scale" \in want.asked) ~> (ctSeg.rec.dt_scale = F32(want.dt_scale))

\* C24: after the application's shutdown (closeEvent has run) the Frame
\* reader, the Geometry reader and the Control writer are all closed: no
\* reader of the Viewport is attached to its segment any more and the Control
\* writer holds no shared memory, whatever the state at shutdown was,
\* the view of the last rendered tick being kept included.
C24_ShutdownClosesAll ==
    ~vp.frame_on =>
        /\ vp.fb # 0 => ~objs[vp.fb].r.mm
        /\ vp.geom # 0 => ~objs[vp.geom].r.mm
        /\ ~ctrl.shm

\* C25: a camera switch releases the kept view, then attempts the close of
\* the old Frame reader, then of the old Geometry reader, and opens the new
\* camera's segments only after these attempts: while a scheduled
\* _delayed_close has not yet attempted to close the old Frame reader (which
\* is still attached), no new Frame reader has been opened in its place.
C25_CloseBeforeOpen ==
    \A p \in pend :
        (p.fb # 0 /\ objs[p.fb].r.mm) =>
            ~(vp.fb # 0 /\ vp.fb # p.fb /\ objs[vp.fb].r.mm)

\* Reader object id went through a close() in this step that met BufferError:
\* the reader let go of its mapping, which stays mapped under the view held.
BusyClose(id) == objs[id].r.mm /\ ~objs'[id].r.mm /\ objs'[id].mapped

\* C26: a close attempt of a camera switch that fails because a borrowed view
\* is outstanding (BufferError) is not propagated: no handler of the switch
\* is ever left by BufferError, the new camera's readers stay in place, and
\* the close of the same outgoing readers is scheduled again.
C26_BusyCloseRescheduled ==
    /\ [](vp.raised.exc = "BufferError" => vp.raised.by = "closeEvent")
    /\ [][\A p \in pend : \A id \in {p.fb, p.geom} \ {0} :
            BusyClose(id) =>
                /\ p \in pend'
                /\ vp' = vp]_vars

\* After a switch that went through, the close of the outgoing Frame reader
\* met BufferError (another caller holds a view of it): no exception is
\* recorded, both new readers are attached, the outgoing Geometry reader was
\* not touched, and the closure is scheduled.
C26_Witness ==
    \E p \in pend :
        /\ p.fb # 0 /\ p.fb \in borrow
        /\ ~objs[p.fb].r.mm /\ objs[p.fb].mapped /\ objs[p.geom].r.mm
        /\ vp.raised.exc = "none"
        /\ vp.fb # p.fb /\ objs[vp.fb].r.mm /\ objs[vp.geom].r.mm

\* C27: whenever close() of a Frame or Geometry reader returns without error,
\* the reader's descriptor has been released and its mapping unmapped,
\* whatever close attempts came before (an earlier BufferError included): a
\* reader that a camera switch replaced and whose _delayed_close went
\* through without error keeps no descriptor open, and keeps no mapping
\* unless a view of it is still held.
C27_CloseReleases ==
    \A id \in 1..Len(objs) :
        Retired(id) =>
            /\ ~objs[id].fd_open
            /\ id \notin borrow => ~objs[id].mapped

\* C28: in every state in which the Viewport is connected (its _connected
\* flag is set) the Frame reader and the Geometry reader of the selected
\* camera are both attached: the flag is set only after both were opened and
\* is no longer set once either is not attached.
C28_ConnectedMeansAttached ==
    vp.connected =>
        /\ vp.fb # 0 /\ objs[vp.fb].r.mm
        /\ vp.geom # 0 /\ objs[vp.geom].r.mm

\* The Viewport's Frame reader is attached and its Geometry reader is not.
HalfOpen ==
    /\ vp.fb # 0 /\ objs[vp.fb].r.mm
    /\ vp.geom # 0 /\ ~objs[vp.geom].r.mm

\* C29: a poll tick that runs while the new camera's Frame reader is attached
\* and its Geometry reader is not skips: it renders nothing, keeps no view
\* and raises nothing, so that as long as the Viewport is in that state no
\* tick has rendered from or kept a view of the new readers or failed.
C29_HalfOpenTickSkips ==
    /\ [](HalfOpen => (vp.keep = 0 /\ vp.used = NoUse /\ vp.raised.by # "_tick"))
    /\ [][(VpTick /\ HalfOpen) =>
            (vp'.keep = 0 /\ vp'.used = NoUse /\ vp'.raised.exc = "none"
             /\ objs' = objs)]_vars

\* After a switch to camera 1, whose Geometry segment is missing: the new
\* Frame reader is attached, the new Geometry reader is not, the frame timer
\* runs, and nothing is kept, rendered or raised.
C29_Witness ==
    /\ HalfOpen /\ vp.frame_on /\ objs[vp.fb].cam = 1
    /\ vp.keep = 0 /\ vp.used = NoUse /\ vp.raised.exc = "none"

\* Both readers of the Viewport are attached and the Frame payload is shorter
\* than three bytes a point of the Geometry segment.
ShortFrame ==
    /\ vp.fb # 0 /\ objs[vp.fb].r.mm
    /\ vp.geom # 0 /\ objs[vp.geom].r.mm
    /\ objs[vp.fb].r.height * objs[vp.fb].r.stride < objs[vp.geom].r.count * 3

\* C30: a poll tick indexes the Frame view at 3*i .. 3*i+2 for the points
\* i < point_count only when the view holds at least point_count*3 bytes, and
\* skips when the view is shorter: no tick ever indexes past the view, every
\* rendered tick had a view of at least point_count*3 bytes, and a tick
\* against a Frame payload shorter than that renders nothing and keeps no
\* view.
C30_BoundCheckedIndexing ==
    /\ [](vp.raised.exc # "IndexError")
    /\ [](vp.used # NoUse => vp.used.count * 3 <= vp.used.len)
    /\ [][(VpTick /\ ShortFrame) => (vp'.used = vp.used /\ vp'.keep = vp.keep)]_vars

\* The Viewport is attached to camera 1, whose Geometry segment has three
\* points and whose Frame payload has six bytes; the frame timer runs and no
\* tick has rendered or failed.
C30_Witness ==
    /\ ShortFrame /\ vp.frame_on /\ objs[vp.geom].r.count = 3
    /\ vp.used = NoUse /\ vp.keep = 0 /\ vp.raised.exc = "none"

\* A bounded-spin Frame read (no inter-spin delay) of a connected reader gave
\* up after two or more attempts that each found the sequence of the buffer
\* it read even, and the producer rotated active_index exactly once since the
\* call began: the rotation came before the first attempt's read, for the
\* producer only writes the buffer that is not active.
GaveUpAfterRotate ==
    /\ call.pc = "idle" /\ ret.op = "latest_frame_view" /\ fbr.mm
    /\ ret.sleep_ns = 0 /\ ret.res = "none"
    /\ ret.attempts >= 2 /\ ret.nseq = ret.attempts
    /\ prod.n = okSeq.began + 1

\* C31: every attempt of a bounded-spin Frame read locates the active buffer
\* anew from active_index before it reads the sequence, so that after the
\* producer has rotated active_index to a buffer with a stable sequence a
\* later attempt of the same call reads that buffer and succeeds: no call
\* gives up while the buffer that has been active since before its first
\* attempt holds a stable (odd) sequence.
C31_RelocatesEachAttempt ==
    GaveUpAfterRotate => ~(fbActive # ret.active /\ Odd(fbSeq[fbActive]))

\* C32: every call of a bounded-spin read (latest_frame_view, latest) ends,
\* for every max_spins and every inter-spin delay, a non-zero one included,
\* and returns a view with its sequence or unavailable, never an error: a
\* running call has made at most max_spins attempts and a finished one
\* returned one of the two.
C32_SpinReadReturns ==
    /\ (call.op \in SpinOps /\ call.pc # "idle") => call.attempts <= call.max_spins
    /\ ret.op \in SpinOps => ret.res \in {"view", "none"}

\* C33: after a connect() that failed the header validation (bad magic) the
\* Frame or Geometry reader is not connected: it holds no mapping and no
\* descriptor, and every read of a reader whose segment was rejected returns
\* unavailable, never a view into that segment.
C33_RejectedMeansUnattached ==
    /\ (ret.op \in {"FrameShmReader.connect", "GeoShmReader.connect"}
          /\ ret.res = "RuntimeError") =>
          (~MappedOf(Who(ret.op)) /\ ~FdOf(Who(ret.op)))
    /\ (ret.op \in FrameReadOps /\ fbSeg.exists /\ fbSeg.magic # MAGIC) =>
          ret.res = "none"
    /\ (ret.op \in GeoReadOps /\ gmSeg.exists /\ gmSeg.magic # GEOM_MAGIC) =>
          ret.res = "none"

\* The reader the Viewport created last belongs to another camera than the
\* recorded active one and is not attached: the last camera switch failed
\* because a segment of the new camera does not exist.
LastSwitchFailed ==
    /\ objs # << >> /\ vp.active_idx >= 0
    /\ objs[Len(objs)].cam # vp.active_idx
    /\ ~objs[Len(objs)].r.mm /\ ~objs[Len(objs)].fd_open

\* The Viewport's Frame and Geometry readers are attached readers of camera c.
PairOf(c) ==
    /\ vp.fb # 0 /\ objs[vp.fb].cam = c /\ objs[vp.fb].r.mm
    /\ vp.geom # 0 /\ objs[vp.geom].cam = c /\ objs[vp.geom].r.mm

\* C34: a camera switch that fails because a segment of the new camera does
\* not exist leaves the consumer as it was: until the window is closed the
\* previous camera's Frame and Geometry readers are still the Viewport's and
\* attached, and no tick since has rendered from other readers.
C34_FailedSwitchKeepsCamera ==
    (LastSwitchFailed /\ vp.frame_on) =>
        /\ PairOf(vp.active_idx)
        /\ vp.used # NoUse => (vp.used.fb = vp.fb /\ vp.used.geom = vp.geom)

\* C35: a poll tick that renders combines a Frame view and a Geometry view
\* of readers attached to the same camera index; and whenever both of the
\* Viewport's readers are attached (so that a tick could render), they are
\* readers of the same camera -- after failed switches and while deferred
\* closes are pending as well.
C35_SameCameraPair ==
    /\ vp.used.fb # 0 =>
          /\ vp.used.geom # 0
          /\ objs[vp.used.fb].kind = "fb" /\ objs[vp.used.geom].kind = "geo"
          /\ objs[vp.used.fb].cam = objs[vp.used.geom].cam
    /\ (vp.fb # 0 /\ vp.geom # 0 /\ objs[vp.fb].r.mm /\ objs[vp.geom].r.mm) =>
          objs[vp.fb].cam = objs[vp.geom].cam

\* A tick has rendered camera 1 while the deferred close of camera 0's
\* readers is still pending and camera 0's Geometry reader is still attached.
C35_Witness ==
    /\ vp.used.fb # 0 /\ objs[vp.used.fb].cam = 1
    /\ \E p \in pend : p.geom # 0 /\ objs[p.geom].cam = 0 /\ objs[p.geom].r.mm

\* C36: the recorded active camera index is the camera index of the readers
\* the Viewport is attached through: an attached Frame or Geometry reader of
\* the Viewport always belongs to camera _active_idx, so the `already
\* active` shortcut of _on_cam_changed never answers for a camera whose
\* pair is not the attached one.
C36_ActiveIdxIsAttachedCamera ==
    /\ (vp.fb # 0 /\ objs[vp.fb].r.mm) => objs[vp.fb].cam = vp.active_idx
    /\ (vp.geom # 0 /\ objs[vp.geom].r.mm) => objs[vp.geom].cam = vp.active_idx

\* C37: the Control writer's counter counts the records it published: a
\* write() on a writer that is not attached (never connected, or closed)
\* leaves the counter and the Control segment as they were and ends without
\* an exception.
C37_UnattachedWriteIsNoOp ==
    (ret.op = WriteOp /\ ~ret.obj0.shm) =>
        /\ ret.res = "ok"
        /\ ctrl.seq = ret.obj0.seq

\* C38: the retry chain of a camera switch goes on exactly as long as an
\* outgoing reader's mapping is alive: while the mapping of a reader the
\* Viewport has replaced is still mapped, a _delayed_close naming that
\* reader is scheduled; and a _delayed_close that was scheduled again after
\* a BufferError still has a mapped outgoing reader to close.
C38_RetryUntilUnmapped ==
    /\ \A id \in 1..Len(objs) :
          (id \notin {vp.fb, vp.geom} /\ objs[id].mapped) =>
              \E p \in pend : id \in {p.fb, p.geom}
    /\ \A p \in pend :
          (p.fb # 0 /\ ~objs[p.fb].r.mm /\ p.geom # 0 /\ objs[p.geom].r.mm) =>
              objs[p.fb].mapped

----------------------------------------------------------------------------
(* The standalone viewer uc3d_view.py: it maps the Frame segment once and *)
(* then, in a loop, reads the header and picks a buffer to show.          *)

ViewerBufs == 3
ViewerMaxSeq == 4
ChooseOp == "choose_latest_ready"

\* read_header(mm): the header fields, refused for a foreign magic or a
\* pixel format other than RGB888; active is the header's active_index word.
read_header(seg, active) ==
    IF seg.magic # MAGIC \/ seg.fmt # 0 THEN [res |-> "RuntimeError"]
    ELSE [res |-> "ok", ver |-> seg.ver, fmt |-> seg.fmt, w |-> seg.w, h |-> seg.h,
          stride |-> seg.stride, bufcnt |-> seg.bufcnt, active |-> active]

\* buf_payload_view(mm, i, h, stride): the sequence word at the start of
\* buffer i (unpack_from refuses an offset whose 8 bytes are not inside the
\* mapping) and a view of the payload after it (a slice, cut at the end of
\* the mapping).
buf_payload_view(mm, i, h, stride) ==
    LET off == FB_HDR_size + i * (SEQ64_size + h * stride)
        payload_off == off + SEQ64_size
    IN  IF off + SEQ64_size > mm.size
        THEN [res |-> "struct.error", seq |-> 0, payload |-> NoView]
        ELSE [res |-> "ok", seq |-> mm.seqs[i],
              payload |-> [off |-> payload_off,
                           len |-> Min(mm.size, payload_off + h * stride) - payload_off]]

\* [hdr["active"]] + [i for i in range(hdr["bufcnt"]) if i != hdr["active"]]
Candidates(hdr) ==
    <<hdr.active>> \o
    [k \in 1..(IF hdr.active < hdr.bufcnt THEN hdr.bufcnt - 1 ELSE hdr.bufcnt) |->
        IF k - 1 < hdr.active THEN k - 1 ELSE k]

\* What the loop of choose_latest_ready does with the candidate at place k:
\* it ends there when the read fails or the sequence is odd.
ChooseEndsAt(mm, hdr, k) ==
    LET b == buf_payload_view(mm, Candidates(hdr)[k], hdr.h, hdr.stride)
    IN  b.res # "ok" \/ b.seq % 2 = 1

\* The result of choose_latest_ready when its loop ends at place k.
ChooseAt(mm, hdr, k) ==
    LET b == buf_payload_view(mm, Candidates(hdr)[k], hdr.h, hdr.stride)
    IN  IF b.res # "ok"
        THEN [res |-> b.res, idx |-> -1, seq |-> 0, payload |-> NoView]
        ELSE [res |-> "view", idx |-> Candidates(hdr)[k], seq |-> b.seq,
              payload |-> b.payload]

\* Variant of choose_latest_ready that tries the buffers in ascending order.
choose_latest_ready_ascending(mm, hdr) ==
    LET hits == {i \in 0..(hdr.bufcnt - 1) :
                    buf_payload_view(mm, i, hdr.h, hdr.stride).seq % 2 = 1}
    IN  IF hits = {} THEN [res |-> "none", idx |-> -1, seq |-> 0, payload |-> NoView]
        ELSE LET i == CHOOSE x \in hits : \A y \in hits : x <= y
                 b == buf_payload_view(mm, i, hdr.h, hdr.stride)
             IN  [res |-> "view", idx |-> i, seq |-> b.seq, payload |-> b.payload]

\* choose_latest_ready(mm, hdr): the first candidate, the active buffer
\* first and then the others in ascending order, whose sequence is odd;
\* (None, None, None) when there is none.
choose_latest_ready(mm, hdr) ==
    LET ends == {k \in 1..Len(Candidates(hdr)) : ChooseEndsAt(mm, hdr, k)}
    IN  IF ends = {} THEN [res |-> "none", idx |-> -1, seq |-> 0, payload |-> NoView]
        ELSE ChooseAt(mm, hdr, CHOOSE k \in ends : \A j \in ends : k <= j)

\* One turn of main's loop after choose_latest_ready gave c: a payload whose
\* sequence differs from last_seq is shown (reshape refuses a payload that
\* is not height * stride bytes) and its sequence remembered.
Viewer_show(hdr, c, last_seq) ==
    IF c.res # "view" THEN [res |-> c.res, last_seq |-> last_seq]
    ELSE IF c.seq = last_seq THEN [res |-> "view", last_seq |-> last_seq]
    ELSE IF c.payload.len # hdr.h * hdr.stride
         THEN [res |-> "ValueError", last_seq |-> last_seq]
    ELSE [res |-> "view", last_seq |-> c.seq]

\* The viewer's loop turns once: read_header, choose_latest_ready, show.
\* ret keeps what choose_latest_ready returned and last_seq (0 for None).
ViewerLoop ==
    /\ ConsumerIdle
    /\ ret.op \in {"open_mmap", ChooseOp}
    /\ ret.res \in {"ok", "view", "none"}
    /\ \E hdr \in {read_header(fbSeg, fbActive)} :
          IF hdr.res # "ok"
          THEN ret' = [NoRet EXCEPT !.op = ChooseOp, !.res = hdr.res, !.active = -1]
          ELSE \E c \in {choose_latest_ready([size |-> fbSeg.size, seqs |-> fbSeq], hdr)} :
                 ret' = [NoRet EXCEPT !.op = ChooseOp,
                                      !.res = Viewer_show(hdr, c, ret.last0).res,
                                      !.active = c.idx, !.seq = c.seq,
                                      !.view = c.payload,
                                      !.last0 = Viewer_show(hdr, c, ret.last0).last_seq]
    /\ UNCHANGED <<segVars, memVars, prodVars, fbr, geo, reg, call, tick, okSeq,
                   notReadySeen, extVars>>

\* Frame segments of one to ViewerBufs buffers whose sequence words and
\* active index take every combination.
InitViewer ==
    /\ \E n \in 1..ViewerBufs :
          /\ fbSeg = [FrameSeg(MAGIC, VERSION, FMT_RGB888, 1, 1, 3, n, 0)
                         EXCEPT !.size = FB_HDR_size + n * (SEQ64_size + 3)]
          /\ fbActive \in 0..(n - 1)
          /\ fbSeq \in [0..(n - 1) -> 0..ViewerMaxSeq]
          /\ fbPay = [i \in 0..(n - 1) |-> [k \in 1..3 |-> 0]]
    /\ gmSeg = GoodGeoSeg /\ rgSeg = GoodRegSeg
    /\ gmSeq = 1
    /\ prod = NoProd
    /\ gprod = NoGProd
    /\ rgCams = GoodRegCams(GoodRegSeg.count)
    /\ NoCameras /\ NoControl
    /\ FreshConsumer
    /\ okSeq = NoOkSeq({})

NextViewer == ViewerOpen \/ ViewerLoop

SpecViewer == InitViewer /\ [][NextViewer]_vars

\* The buffers of the mapped segment whose sequence is odd.
OddBufs == {i \in DOMAIN fbSeq : Odd(fbSeq[i])}

\* choose_latest_ready returned the active buffer when its sequence is odd,
\* otherwise the lowest-index buffer whose sequence is odd, and None exactly
\* when no buffer has an odd sequence.
ActiveFirstThenLowest ==
    /\ ret.res \in {"view", "none"}
    /\ Odd(fbSeq[fbActive]) => (ret.res = "view" /\ ret.active = fbActive)
    /\ (~Odd(fbSeq[fbActive]) /\ OddBufs # {}) =>
          (ret.res = "view" /\ ret.active \in OddBufs
             /\ \A i \in OddBufs : ret.active <= i)
    /\ ret.res = "none" <=> OddBufs = {}

\* C39 (as the code has it): choose_latest_ready returns the active buffer
\* whenever its sequence is odd, otherwise the lowest-index other buffer
\* whose sequence is odd, and none only when no buffer has an odd sequence;
\* with the buffer it returns its sequence word and a view of exactly its
\* payload. The buffer need not have the greatest odd sequence.
C39_ActiveFirstThenLowest ==
    ret.op = ChooseOp =>
        /\ ActiveFirstThenLowest
        /\ ret.res = "view" =>
              /\ ret.seq = fbSeq[ret.active]
              /\ ret.view = [off |-> FB_HDR_size + ret.active * (SEQ64_size + PayLen(fbSeg))
                                       + SEQ64_size,
                             len |-> PayLen(fbSeg)]

\* choose_latest_ready passed over an even active buffer and returned a
\* buffer although another one has a greater odd sequence.
C39_Witness ==
    /\ ret.op = ChooseOp /\ ret.res = "view"
    /\ ret.active # fbActive
    /\ \E i \in OddBufs : fbSeq[i] > ret.seq

\* C39 as stated: the three rules of choice, and the buffer returned is the
\* one with the greatest sequence among all buffers with an odd sequence.
C39_ReturnsGreatestOdd ==
    ret.op = ChooseOp =>
        /\ ActiveFirstThenLowest
        /\ ret.res = "view" => \A i \in OddBufs : fbSeq[i] <= ret.seq

====
